---- MODULE Spec2Model ----
(***************************************************************************)
(* WAFleet: session lifecycle and exclusivity layer.                       *)
(*                                                                         *)
(* A fleet of Node processes shares one Redis store.  Each process keeps   *)
(* an in-memory table `sessions` of SessionEntry objects (waSessions.ts),  *)
(* owns Baileys sockets (the connector), reconnect timers and lease        *)
(* objects (locks.ts).  JavaScript object identity matters here: the       *)
(* spread `{...existing, lock}` makes a NEW object, while closures (the    *)
(* timer callback's `s`, the listeners' `entry`, logoutSession's `s`)      *)
(* keep the OLD one.  Objects are therefore kept in a per-process heap     *)
(* and referred to by index; 0 is null/undefined.  A heap slot is reused    *)
(* once nothing refers to its object any more (garbage collection).        *)
(*                                                                         *)
(* An async function is a task that advances one await at a time.  A       *)
(* store command and the continuation that consumes its reply are one      *)
(* step; everything a continuation does up to its next await on I/O is     *)
(* part of that step.                                                      *)
(*                                                                         *)
(* Time is counted in ticks of 5 s for the lease only (LOCK_TTL = 2        *)
(* ticks = 10 s, RENEW_EVERY = 1 tick = 5 s).  Reconnect timers and        *)
(* socket events are not tied to the clock: they may fire at any moment.   *)
(***************************************************************************)
EXTENDS Integers, Sequences, FiniteSets, Bags, TLC

\* ---------------------------------------------------------------- bounds
MaxEnt   == 3   \* SessionEntry objects alive at once in a process
MaxSock  == 2   \* sockets alive at once in a process
MaxLock  == 2   \* lease objects alive at once in a process
MaxTimer == 2   \* reconnect timers alive at once in a process
MaxTask  == 2   \* async calls in flight in a process
MaxCred  == 2   \* credential versions a connector produces
MaxReq   == 2   \* API requests the fleet receives
MaxFault == 1   \* store commands and connector calls that fail
MaxStreak == 3  \* consecutive closes counted
MaxQr == 2      \* pairing artifacts emitted in one process

\* ------------------------------------------------------ program constants
RECONNECT_MIN == 2000
RECONNECT_MAX == 30000
LOCK_TTL      == 2      \* LOCK_TTL_MS = 10_000, in ticks of 5 s
RENEW_EVERY   == 1      \* LOCK_RENEW_EVERY_MS = 5_000, in ticks of 5 s
RETRIES        == 5     \* RESTORE_LOCK_RETRIES
RETRY_DELAY_MS == 2000  \* RESTORE_LOCK_RETRY_DELAY_MS

Procs  == {"p1", "p2"}
Ids    == {"s1", "s2", "s3"}
ApiIds == {"s1"}          \* the sessions API clients create and use
Tokens == {"t1", "t2"}
\* the tokens that requests of the bounded runs are given or present
ApiTokens == {"t1"}
KeyIds == {"k1"}          \* keyed material baileys:<id>:<type>:<kid>

Corrupt == -1      \* a stored credential blob that JSON.parse rejects

NoKey == [token |-> <<>>, ttl |-> 0]      \* the lock key is absent

Min(a, b) == IF a < b THEN a ELSE b

VARIABLES
  lockKey,     \* store: lock:wa:<id>  -> [token, ttl] or NoKey
  credsKey,    \* store: baileys:<id>:creds -> credential blob, 0 = absent
  keyedKeys,   \* store: baileys:<id>:<type>:<kid> -> set of kids present
  sessSet,     \* store: sess:<id>:tokens -> set of bearer tokens
  tokenKey,    \* store: token:<t> -> id, "" = absent
  proc,        \* per process: sessions table, heap, socks, timers, locks, tasks
  issued,      \* bearer tokens a client has been given
  reqs,        \* API requests received so far
  last,        \* the operation that just completed (for postconditions)
  faults,      \* failures injected so far
  wins,        \* per id: leases handed out since the lock key was last absent
  dual         \* per id: ticks for which two processes drove a live connector

storeVars == <<lockKey, credsKey, keyedKeys, sessSet, tokenKey>>
vars == <<lockKey, credsKey, keyedKeys, sessSet, tokenKey, proc, issued, reqs, faults, last, wins, dual>>

\* ----------------------------------------------------------- SessionEntry
\* waSessions.ts:22-31.  backoffMs 0 is `undefined` (both falsy in JS).
FreshEntry(lock) ==
  [sock |-> 0, status |-> "connecting", lastQr |-> 0, userJid |-> 0,
   reconnecting |-> FALSE, backoffMs |-> 0, backoffTimer |-> 0, lock |-> lock]

\* `{}`: what `sessions[sessionId] || {}` spreads when the record is gone.
EmptyEntry ==
  [sock |-> 0, status |-> "connecting", lastQr |-> 0, userJid |-> 0,
   reconnecting |-> FALSE, backoffMs |-> 0, backoffTimer |-> 0, lock |-> 0]

\* Free heap slots.
NoEnt   == [EmptyEntry EXCEPT !.status = "free"]
NoSock  == [id |-> "", phase |-> "free", on |-> FALSE, onCreds |-> FALSE,
            entry |-> 0, creds |-> 0]
NoTimer == [id |-> "", s |-> 0, delay |-> 0, armed |-> FALSE]
NoLock  == [id |-> "", token |-> <<>>, renewing |-> FALSE, due |-> 0, held |-> 0]

\* restoreAllSessionsFromRedis (waSessions.ts:309-367) as a process runs it
\* at startup: pc is the await it stands at, ids the candidates in iteration
\* order, locked the ids of the lock keys it saw, i the candidate it is at,
\* attempt the loop counter, code how the last createSession settled,
\* restored the list it returns.  calls counts the createSession calls made
\* per id and delay is the timeout it last waited for (history fields).
NoRestore ==
  [pc |-> "idle", ids |-> <<>>, locked |-> {}, i |-> 0, attempt |-> 0,
   code |-> "", restored |-> <<>>, calls |-> [x \in Ids |-> 0], delay |-> 0]

\* streak: per id, the transient closes its listeners saw since the last open
\* (a history variable).  oom: an allocation found no free slot (the step is
\* then not taken).  exited: the process was shut down once and started again
\* (a history variable).  qrs: the pairing artifacts the connectors of the
\* process have emitted so far, artifact n being the n-th; settled: per id, the
\* value of qrs when a listener last handled an open or a close of the id (a
\* history variable).
InitProc ==
  [sessions |-> [i \in Ids |-> 0],
   heap     |-> [i \in 1..MaxEnt |-> NoEnt],
   socks    |-> [i \in 1..MaxSock |-> NoSock],
   timers   |-> [i \in 1..MaxTimer |-> NoTimer],
   locks    |-> [i \in 1..MaxLock |-> NoLock],
   tasks    |-> EmptyBag,
   streak   |-> [i \in Ids |-> 0],
   oom      |-> FALSE,
   exited   |-> FALSE,
   restore  |-> NoRestore,
   qrs      |-> 0,
   settled  |-> [i \in Ids |-> 0]]

\* The lowest free slot of a heap array, 0 when it is full.
FreeSlot(arr, free) ==
  IF \E i \in DOMAIN arr : arr[i] = free
    THEN CHOOSE i \in DOMAIN arr : arr[i] = free /\ \A j \in 1..(i-1) : arr[j] # free
    ELSE 0

Oom(L) == [L EXCEPT !.oom = TRUE]

NoOp == [op |-> "init", p |-> "", id |-> "", a |-> 0, b |-> 0]

Init ==
  /\ lockKey   = [i \in Ids |-> NoKey]
  /\ credsKey  = [i \in Ids |-> 0]
  /\ keyedKeys = [i \in Ids |-> {}]
  /\ sessSet   = [i \in Ids |-> {}]
  /\ tokenKey  = [t \in Tokens |-> ""]
  /\ proc      = [p \in Procs |-> InitProc]
  /\ issued    = {}
  /\ reqs      = 0
  /\ faults    = 0
  /\ last      = NoOp
  /\ wins      = [i \in Ids |-> 0]
  /\ dual      = [i \in Ids |-> 0]

\* ------------------------------------------------------------ local heap
\* A process-local state L is proc[p].  Handlers that touch only memory are
\* operators from L to L.

Task(origin, id, force) ==
  [origin |-> origin, id |-> id, force |-> force, pc |-> "start",
   existing |-> 0, s |-> 0, sk |-> 0, lk |-> 0, tok |-> "",
   toks |-> {}, creds |-> FALSE, kids |-> {}, errs |-> {}, had |-> FALSE,
   lost |-> FALSE]

AddTask(L, t) == [L EXCEPT !.tasks = @ (+) SetToBag({t})]
DelTask(L, t) == [L EXCEPT !.tasks = @ (-) SetToBag({t})]

Bounded(L) == ~L.oom /\ BagCardinality(L.tasks) <= MaxTask

\* Garbage collection: objects nothing refers to any more free their slot,
\* and what can no longer be read of a dead object is blanked.
TaskSet(L) == BagToSet(L.tasks)
ReachEnt(L) ==
  ({L.sessions[i] : i \in Ids}
     \cup {t.existing : t \in TaskSet(L)} \cup {t.s : t \in TaskSet(L)}
     \cup {L.timers[k].s : k \in {j \in DOMAIN L.timers : L.timers[j].armed}}
     \cup {L.socks[k].entry : k \in {j \in DOMAIN L.socks :
              L.socks[j].phase \in {"connecting", "open"}
              /\ (L.socks[j].on \/ L.socks[j].onCreds)}}) \ {0}
\* Sweep: what nothing refers to frees its slot; what can no longer be read
\* of a dead object is blanked.
Sweep(L) ==
  LET re == ReachEnt(L)
      rs == {L.heap[e].sock : e \in re} \cup {t.sk : t \in TaskSet(L)}
      rt == {L.heap[e].backoffTimer : e \in re}
      rl == {L.heap[e].lock : e \in re} \cup {t.lk : t \in TaskSet(L)}
  IN  [L EXCEPT
        !.heap = [e \in DOMAIN @ |-> IF e \in re THEN @[e] ELSE NoEnt],
        !.socks = [k \in DOMAIN @ |->
           IF @[k].phase \in {"connecting", "open"}
             THEN IF @[k].on THEN @[k] ELSE [@[k] EXCEPT !.entry = 0]
           ELSE IF k \in rs /\ @[k].phase = "closed"
             THEN [NoSock EXCEPT !.id = L.socks[k].id, !.phase = "closed"]
             ELSE NoSock],
        !.timers = [k \in DOMAIN @ |->
           IF @[k].armed THEN @[k]
           ELSE IF k \in rt /\ @[k].id # ""
             THEN [NoTimer EXCEPT !.id = L.timers[k].id]
             ELSE NoTimer],
        !.locks = [l \in DOMAIN @ |->
           IF @[l].renewing \/ (l \in rl /\ @[l].id # "") THEN @[l] ELSE NoLock]]

\* Compaction: the live objects of each kind move down to the lowest slots,
\* keeping their order, and every reference follows.
Rank(live, i) == IF i = 0 THEN 0 ELSE Cardinality({j \in live : j <= i})
Slot(live, i) == CHOOSE j \in live : Rank(live, j) = i

Compact(L) ==
  LET le == {e \in DOMAIN L.heap : L.heap[e] # NoEnt}
      ls == {k \in DOMAIN L.socks : L.socks[k] # NoSock}
      lt == {k \in DOMAIN L.timers : L.timers[k] # NoTimer}
      ll == {l \in DOMAIN L.locks : L.locks[l] # NoLock}
      mEnt(x)  == [x EXCEPT !.sock = Rank(ls, @), !.backoffTimer = Rank(lt, @),
                            !.lock = Rank(ll, @)]
      mTask(t) == [t EXCEPT !.existing = Rank(le, @), !.s = Rank(le, @),
                            !.sk = Rank(ls, @), !.lk = Rank(ll, @)]
  IN  [L EXCEPT
        !.sessions = [i \in Ids |-> Rank(le, L.sessions[i])],
        !.heap = [e \in DOMAIN @ |->
           IF e <= Cardinality(le) THEN mEnt(L.heap[Slot(le, e)]) ELSE NoEnt],
        !.socks = [k \in DOMAIN @ |->
           IF k <= Cardinality(ls)
             THEN [L.socks[Slot(ls, k)] EXCEPT !.entry = Rank(le, @)] ELSE NoSock],
        !.timers = [k \in DOMAIN @ |->
           IF k <= Cardinality(lt)
             THEN [L.timers[Slot(lt, k)] EXCEPT !.s = Rank(le, @)] ELSE NoTimer],
        !.locks = [l \in DOMAIN @ |->
           IF l <= Cardinality(ll) THEN L.locks[Slot(ll, l)] ELSE NoLock],
        !.tasks = LET ts == TaskSet(L) IN
           [t \in {mTask(x) : x \in ts} |->
              L.tasks[CHOOSE x \in ts : mTask(x) = t]]]

GC(L) == Compact(Sweep(L))

clearTimeout(L, k) ==
  IF k = 0 THEN L ELSE [L EXCEPT !.timers[k].armed = FALSE]

clearInterval(L, l) ==
  IF l = 0 THEN L ELSE [L EXCEPT !.locks[l].renewing = FALSE, !.locks[l].due = 0]

removeAllListeners(L, k) ==
  IF k = 0 THEN L ELSE [L EXCEPT !.socks[k].on = FALSE, !.socks[k].onCreds = FALSE]

\* waSessions.ts:43-50
resetBackoff(L, e) ==
  LET t  == L.heap[e].backoffTimer
      L1 == [L EXCEPT !.heap[e].backoffMs = RECONNECT_MIN]
      L2 == IF t # 0
              THEN [clearTimeout(L1, t) EXCEPT !.heap[e].backoffTimer = 0]
              ELSE L1
  IN  [L2 EXCEPT !.heap[e].reconnecting = FALSE]

\* waSessions.ts:61
nextBackoff(ms) ==
  Min(IF ms # 0 THEN ms * 2 ELSE RECONNECT_MIN, RECONNECT_MAX)

\* waSessions.ts:57-73 (the timer's callback is TimerFire below)
scheduleReconnect(L, id) ==
  LET s == L.sessions[id] IN
  IF s = 0 \/ L.heap[s].reconnecting THEN L
  ELSE LET ms == nextBackoff(L.heap[s].backoffMs)
           k  == FreeSlot(L.timers, NoTimer)
       IN  IF k = 0 THEN Oom(L) ELSE
           [L EXCEPT !.heap[s].reconnecting = TRUE,
                     !.heap[s].backoffMs = ms,
                     !.heap[s].backoffTimer = k,
                     !.timers[k] = [id |-> id, s |-> s, delay |-> ms, armed |-> TRUE]]

\* A faulty release: the renew interval is left running.
logoutRelease_keepsRenewing(L, t, s) ==
  LET l == L.heap[s].lock IN
  IF l # 0
    THEN AddTask(L, [t EXCEPT !.pc = "release", !.s = 0, !.sk = 0, !.lk = l])
    ELSE AddTask([L EXCEPT !.sessions[t.id] = 0, !.streak[t.id] = 0],
                 [t EXCEPT !.pc = "smembers", !.s = 0, !.sk = 0])

\* waSessions.ts:250-260: s.lock?.release() starts (clearInterval is
\* synchronous, locks.ts:76), or, without a lock, the record is deleted and
\* deleteRedisAuth starts.
logoutRelease(L, t, s) ==
  LET l == L.heap[s].lock IN
  IF l # 0
    THEN AddTask(clearInterval(L, l), [t EXCEPT !.pc = "release", !.s = 0, !.sk = 0, !.lk = l])
    ELSE AddTask([L EXCEPT !.sessions[t.id] = 0, !.streak[t.id] = 0],
                 [t EXCEPT !.pc = "smembers", !.s = 0, !.sk = 0])

\* waSessions.ts:232-248: the teardown of a record s up to sock.logout().
\* unsubOk = FALSE: removeAllListeners threw (swallowed, listeners stay).
logoutTeardown(L, t, s, unsubOk) ==
  LET k  == L.heap[s].sock
      L1 == [clearTimeout(L, L.heap[s].backoffTimer)
               EXCEPT !.heap[s].reconnecting = FALSE]
      L2 == IF unsubOk THEN removeAllListeners(L1, k) ELSE L1
      t1 == IF unsubOk \/ k = 0 THEN t ELSE [t EXCEPT !.errs = @ \cup {"unsub"}]
  IN  IF k # 0
        THEN AddTask(L2, [t1 EXCEPT !.pc = "sockLogout", !.s = s, !.sk = k])
        ELSE logoutRelease(L2, t1, s)

\* What the caller of createSession does when it resolves with entry e.
createReturn(L, t, e, unsubOk) ==
  CASE t.origin = "api"    -> AddTask(L, [t EXCEPT !.pc = "tokenSet"])
    [] t.origin = "lazy"   -> L
    [] t.origin = "timer"  -> L
    [] t.origin = "restore" -> [L EXCEPT !.restore.pc = "settled", !.restore.code = "ok"]
    [] OTHER               -> logoutTeardown(L, t, e, unsubOk)

\* What the caller of createSession does when it rejects with an error whose
\* code is `code` ("423" or "error").
\* timer: waSessions.ts:67-71; getSession: 82-85; logoutSession: 227-230;
\* restoreAllSessionsFromRedis: 346 (its catch block is RestoreSettle below).
createThrow(L, t, code) ==
  CASE t.origin = "api"    -> L
    [] t.origin = "lazy"   -> L
    [] t.origin = "timer"  ->
         scheduleReconnect([L EXCEPT !.heap[t.s].reconnecting = FALSE], t.id)
    [] t.origin = "restore" -> [L EXCEPT !.restore.pc = "settled", !.restore.code = code]
    [] OTHER               -> AddTask(L, [t EXCEPT !.pc = "smembers", !.existing = 0])

\* waSessions.ts:118-132: after the lock branch, up to the await of useRedisAuth.
createAfterLock(L, t, existing) ==
  LET L1 == IF t.force /\ existing # 0 /\ L.heap[existing].sock # 0
              THEN [removeAllListeners(L, L.heap[existing].sock)
                      EXCEPT !.heap[L.sessions[t.id]].sock = 0]
              ELSE L
  IN  AddTask(L1, [t EXCEPT !.pc = "load", !.existing = 0])

\* waSessions.ts:101-107: createSession up to its first await.
createSession(L, t, unsubOk) ==
  LET existing == L.sessions[t.id] IN
  IF existing # 0 /\ L.heap[existing].sock # 0
       /\ L.heap[existing].status # "close" /\ ~t.force
    THEN createReturn(L, t, existing, unsubOk)
  ELSE IF existing = 0 \/ L.heap[existing].lock = 0
    THEN AddTask(L, [t EXCEPT !.pc = "acquire", !.existing = existing])
    ELSE createAfterLock(L, t, existing)

\* waSessions.ts:76-86 and 225-230: logoutSession up to its first await on I/O.
logoutSession(L, t, unsubOk) ==
  LET s == L.sessions[t.id] IN
  IF s # 0 THEN logoutTeardown(L, t, s, unsubOk)
           ELSE createSession(L, t, unsubOk)

\* --------------------------------------------------------------- connector
\* The black-box connector (a Baileys socket): phase connecting -> open ->
\* closed or connecting -> closed; `on` and `onCreds` say whether the
\* connection.update and creds.update listeners are still attached; `entry`
\* is the object the listeners close over (waSessions.ts:145).

\* waSessions.ts:161-174: an update that carries a pairing artifact qr.
onQr(L, k, qr) ==
  LET e == L.socks[k].entry IN
  IF L.heap[e].status # "open" /\ L.heap[e].lastQr # qr
    THEN [L EXCEPT !.heap[e].lastQr = qr]
    ELSE L

\* waSessions.ts:177-185
onOpen(L, k) ==
  LET e == L.socks[k].entry IN
  resetBackoff([L EXCEPT !.heap[e].status = "open", !.heap[e].userJid = 1,
                         !.heap[e].lastQr = 0,
                         !.streak[L.socks[k].id] = 0,
                         !.settled[L.socks[k].id] = L.qrs], e)

\* waSessions.ts:89-91
getLastQR(L, id) ==
  IF L.sessions[id] = 0 THEN 0 ELSE L.heap[L.sessions[id]].lastQr

\* A faulty onClose: every cause is treated as transient.
onClose_alwaysReconnect(L, k, terminal, unsubOk) ==
  LET e  == L.socks[k].entry
      id == L.socks[k].id
      L1 == [L EXCEPT !.heap[e].status = "close", !.heap[e].lastQr = 0,
                      !.settled[id] = L.qrs]
  IN  scheduleReconnect([L1 EXCEPT !.streak[id] = Min(@ + 1, MaxStreak)], id)

\* History kept with the task a terminal close starts: at the close, the lock
\* key of the id held a token that is not the one of the record's lease.
Superseded(L, id) ==
  /\ lockKey[id] # NoKey
  /\ L.sessions[id] # 0
  /\ L.heap[L.sessions[id]].lock # 0
  /\ L.locks[L.heap[L.sessions[id]].lock].token # lockKey[id].token

\* waSessions.ts:187-205.  terminal: loggedOut or connectionReplaced.
onClose(L, k, terminal, unsubOk) ==
  LET e  == L.socks[k].entry
      id == L.socks[k].id
      L1 == [L EXCEPT !.heap[e].status = "close", !.heap[e].lastQr = 0,
                      !.settled[id] = L.qrs]
  IN  IF terminal
        THEN logoutSession(L1, [Task("close", id, FALSE) EXCEPT
                                  !.had = (L1.sessions[id] # 0),
                                  !.lost = Superseded(L1, id)], unsubOk)
        ELSE scheduleReconnect([L1 EXCEPT !.streak[id] = Min(@ + 1, MaxStreak)], id)

\* ------------------------------------------------------------------- lease
\* A faulty acquireSessionLock: SET NX without PX, the key gets no expiry.
acquireSessionLock_noPX(cur, token) ==
  IF cur = NoKey
    THEN [got |-> TRUE,  key |-> [token |-> token, ttl |-> 0]]
    ELSE [got |-> FALSE, key |-> cur]

\* A faulty acquireSessionLock: SET without NX overwrites a held key.
acquireSessionLock_noNX(cur, token) ==
  [got |-> TRUE, key |-> [token |-> token, ttl |-> LOCK_TTL]]

\* locks.ts:37-40: SET key token PX ttl NX on the current value of the key.
acquireSessionLock(cur, token) ==
  IF cur = NoKey
    THEN [got |-> TRUE,  key |-> [token |-> token, ttl |-> LOCK_TTL]]
    ELSE [got |-> FALSE, key |-> cur]

\* A faulty RENEW_LUA: the token is compared but the expiry is not moved.
RENEW_LUA_noExpire(cur, token) ==
  IF cur # NoKey /\ cur.token = token
    THEN [res |-> 1, key |-> cur]
    ELSE [res |-> 0, key |-> cur]

\* locks.ts:43-49 RENEW_LUA
RENEW_LUA(cur, token) ==
  IF cur # NoKey /\ cur.token = token
    THEN [res |-> 1, key |-> [cur EXCEPT !.ttl = LOCK_TTL]]
    ELSE [res |-> 0, key |-> cur]

\* A faulty RELEASE_LUA: DEL without comparing the value with the token.
RELEASE_LUA_anyToken(cur, token) ==
  [res |-> IF cur # NoKey THEN 1 ELSE 0, key |-> NoKey]

\* locks.ts:50-56 RELEASE_LUA
RELEASE_LUA(cur, token) ==
  IF cur # NoKey /\ cur.token = token
    THEN [res |-> 1, key |-> NoKey]
    ELSE [res |-> 0, key |-> cur]

\* Leases handed out for id since its key was last absent.
WinsAfter(id, key) == IF key = NoKey THEN 0 ELSE wins[id]

\* ----------------------------------------------------------------- actions
Op(op, p, id, a, b) == [op |-> op, p |-> p, id |-> id, a |-> a, b |-> b]

Commit(p, L, op) ==
  /\ Bounded(L)
  /\ proc' = [proc EXCEPT ![p] = GC(L)]
  /\ last' = op

Request(max) == reqs < max /\ reqs' = reqs + 1

Fault(f) == IF f THEN faults < MaxFault /\ faults' = faults + 1 ELSE faults' = faults

\* logoutSession(id), called now in local state L, reaches the listener
\* removal of waSessions.ts:239-243 with a socket to remove them from.
Unsubscribes(L, id) == L.sessions[id] # 0 /\ L.heap[L.sessions[id]].sock # 0

\* requireAuthToken.ts:66-67: a client presents a token it was given and the
\* store maps it to id.
HasToken(id) == \E t \in issued : tokenKey[t] = id

\* A session id from randomUUID (tokenStore.ts:39): it names nothing yet.
FreshId(id) ==
  /\ lockKey[id] = NoKey /\ credsKey[id] = 0 /\ keyedKeys[id] = {}
  /\ sessSet[id] = {} /\ \A t \in Tokens : tokenKey[t] # id
  /\ \A p \in Procs :
       /\ proc[p].sessions[id] = 0
       /\ \A k \in DOMAIN proc[p].socks : proc[p].socks[k].id # id
       /\ \A k \in DOMAIN proc[p].timers : proc[p].timers[k].id # id
       /\ \A l \in DOMAIN proc[p].locks : proc[p].locks[l].id # id
       /\ \A t \in BagToSet(proc[p].tasks) : t.id # id

\* server.ts:62-68 with tokenStore.ts:38-48: POST /session.
PostSession(p, id, tok, max) ==
  /\ Fault(FALSE)
  /\ Request(max)
  /\ FreshId(id)
  /\ tokenKey[tok] = ""
  /\ tokenKey' = [tokenKey EXCEPT ![tok] = id]
  /\ sessSet' = [sessSet EXCEPT ![id] = @ \cup {tok}]
  /\ Commit(p, createSession(proc[p], [Task("api", id, FALSE) EXCEPT !.tok = tok], TRUE),
            Op("postSession", p, id, 0, 0))
  /\ UNCHANGED <<issued, lockKey, credsKey, keyedKeys, wins, dual>>

\* server.ts:72: the repeated SET token:<token> after createSession returned.
TokenSetStep(p, t, ok) ==
  /\ t.pc = "tokenSet"
  /\ Fault(~ok)
  /\ tokenKey' = IF ok THEN [tokenKey EXCEPT ![t.tok] = t.id] ELSE tokenKey
  /\ issued' = IF ok THEN issued \cup {t.tok} ELSE issued
  /\ Commit(p, DelTask(proc[p], t), Op("tokenSet", p, t.id, ok, 0))
  /\ UNCHANGED <<lockKey, credsKey, keyedKeys, sessSet, wins, dual, reqs>>

\* server.ts:83-88, 145-152 with requireAuthToken.ts:66-67: a request that
\* reaches getSession for a session this process has no record of.
GetSessionReq(p, id, max) ==
  /\ Fault(FALSE)
  /\ Request(max)
  /\ HasToken(id)
  /\ proc[p].sessions[id] = 0
  /\ Commit(p, createSession(proc[p], Task("lazy", id, FALSE), TRUE),
            Op("getSession", p, id, 0, 0))
  /\ UNCHANGED <<issued, storeVars, wins, dual>>

\* server.ts:262-270: POST /logout.
LogoutReq(p, id, unsubOk, max) ==
  /\ Fault(~unsubOk)
  /\ ~unsubOk => Unsubscribes(proc[p], id)
  /\ Request(max)
  /\ HasToken(id)
  /\ Commit(p, logoutSession(proc[p], [Task("logout", id, FALSE) EXCEPT
                                         !.had = (proc[p].sessions[id] # 0)], unsubOk),
            Op("logoutCall", p, id, proc[p].sessions[id] # 0, 0))
  /\ UNCHANGED <<issued, storeVars, wins, dual>>

\* locks.ts:35: a token nobody holds.
randomUUID(p) ==
  LET used == {proc[p].locks[l].token : l \in DOMAIN proc[p].locks}
                \cup {lockKey[i].token : i \in Ids}
  IN  <<p, CHOOSE n \in 1..(MaxLock + Cardinality(Ids) + 1) :
             /\ <<p, n>> \notin used
             /\ \A m \in 1..(n-1) : <<p, m>> \in used>>

\* A faulty AcquireStep: a lease that is taken is silently asked for again.
AcquireStep_retries(p, t, ok) ==
  /\ t.pc = "acquire"
  /\ Fault(~ok)
  /\ LET L0  == DelTask(proc[p], t)
         l   == FreeSlot(L0.locks, NoLock)
         tk  == randomUUID(p)
         r   == acquireSessionLock(lockKey[t.id], tk)
         e   == FreeSlot(L0.heap, NoEnt)
         ent == IF t.existing # 0 THEN [L0.heap[t.existing] EXCEPT !.lock = l]
                                  ELSE FreshEntry(l)
         L1  == IF l = 0 \/ e = 0 THEN Oom(L0) ELSE
                [L0 EXCEPT !.locks[l] = [id |-> t.id, token |-> tk,
                                         renewing |-> TRUE, due |-> RENEW_EVERY,
                                         held |-> 0],
                           !.heap[e] = ent,
                           !.sessions[t.id] = e]
     IN  IF ok /\ r.got
           THEN /\ lockKey' = [lockKey EXCEPT ![t.id] = r.key]
                /\ wins' = [wins EXCEPT ![t.id] = @ + 1]
                /\ Commit(p, IF L1.oom THEN L1 ELSE createAfterLock(L1, t, t.existing),
                           Op("acquire", p, t.id, TRUE, lockKey[t.id] # NoKey))
           ELSE /\ UNCHANGED <<lockKey, wins>>
                /\ Commit(p, IF ok THEN proc[p] ELSE createThrow(L0, t, "error"),
                          Op(IF ok THEN "acquire" ELSE "acquireError", p, t.id, FALSE,
                             lockKey[t.id] # NoKey))
  /\ UNCHANGED <<issued, credsKey, keyedKeys, sessSet, tokenKey, dual, reqs>>

\* waSessions.ts:106-116: the reply of acquireSessionLock.
AcquireStep(p, t, ok) ==
  /\ t.pc = "acquire"
  /\ Fault(~ok)
  /\ LET L0  == DelTask(proc[p], t)
         l   == FreeSlot(L0.locks, NoLock)
         tk  == randomUUID(p)
         r   == acquireSessionLock(lockKey[t.id], tk)
         e   == FreeSlot(L0.heap, NoEnt)
         ent == IF t.existing # 0 THEN [L0.heap[t.existing] EXCEPT !.lock = l]
                                  ELSE FreshEntry(l)
         L1  == IF l = 0 \/ e = 0 THEN Oom(L0) ELSE
                [L0 EXCEPT !.locks[l] = [id |-> t.id, token |-> tk,
                                         renewing |-> TRUE, due |-> RENEW_EVERY,
                                         held |-> 0],
                           !.heap[e] = ent,
                           !.sessions[t.id] = e]
     IN  IF ok /\ r.got
           THEN /\ lockKey' = [lockKey EXCEPT ![t.id] = r.key]
                /\ wins' = [wins EXCEPT ![t.id] = @ + 1]
                /\ Commit(p, IF L1.oom THEN L1 ELSE createAfterLock(L1, t, t.existing),
                           Op("acquire", p, t.id, TRUE, lockKey[t.id] # NoKey))
           ELSE /\ UNCHANGED <<lockKey, wins>>
                /\ Commit(p, createThrow(L0, t, IF ok THEN "423" ELSE "error"),
                          Op(IF ok THEN "acquire" ELSE "acquireError", p, t.id, FALSE,
                             lockKey[t.id] # NoKey))
  /\ UNCHANGED <<issued, credsKey, keyedKeys, sessSet, tokenKey, dual, reqs>>

\* A faulty useRedisAuth: JSON.parse without the try, a corrupt blob is not
\* replaced by fresh credentials.
useRedisAuth_noCatch(blob) == IF blob = 0 THEN 0 ELSE blob - 1

\* waAuthRedis.ts:36-49: what a load of the stored blob yields.  An absent
\* blob and one that fails to parse both give initAuthCreds() (version 0);
\* JSON.parse undoes the JSON.stringify of saveCreds.
useRedisAuth(blob) == IF blob = 0 \/ blob = Corrupt THEN 0 ELSE blob - 1

\* waSessions.ts:132-156, 208: the reply of useRedisAuth, makeWASocket, the
\* new record and the listeners.
LoadStep(p, t, ok, unsubOk) ==
  /\ t.pc = "load"
  /\ Fault(~ok \/ ~unsubOk)
  /\ ~unsubOk => (ok /\ t.origin \in {"logout", "close"})
  /\ LET L0   == DelTask(proc[p], t)
         k    == FreeSlot(L0.socks, NoSock)
         e    == FreeSlot(L0.heap, NoEnt)
         cur  == L0.sessions[t.id]
         base == IF cur # 0 THEN L0.heap[cur] ELSE EmptyEntry
         L1   == IF k = 0 \/ e = 0 THEN Oom(L0) ELSE
                 [L0 EXCEPT !.socks[k] = [id |-> t.id, phase |-> "connecting",
                                          on |-> TRUE, onCreds |-> TRUE,
                                          entry |-> e,
                                          creds |-> useRedisAuth(credsKey[t.id])],
                            !.heap[e] = [base EXCEPT !.sock = k,
                                                     !.status = "connecting"],
                            !.sessions[t.id] = e]
         valid == base.lock # 0 /\ lockKey[t.id] # NoKey
                    /\ lockKey[t.id].token = L0.locks[base.lock].token
     IN  IF ok
           THEN Commit(p, IF L1.oom THEN L1 ELSE createReturn(L1, t, e, unsubOk),
                       Op("construct", p, t.id, valid, cur # 0))
           ELSE Commit(p, createThrow(L0, t, "error"), Op("loadError", p, t.id, 0, 0))
  /\ UNCHANGED <<issued, storeVars, wins, dual, reqs>>

\* A faulty SockLogoutStep: a rejected sock.logout() rejects logoutSession.
SockLogoutStep_propagates(p, t, ok, unsubOk) ==
  /\ t.pc = "sockLogout"
  /\ Fault(~ok \/ ~unsubOk)
  /\ unsubOk
  /\ IF ok
       THEN /\ Commit(p, logoutRelease(DelTask(proc[p], t), t, t.s),
                      Op("sockLogout", p, t.id, ok, 0))
            /\ UNCHANGED <<issued, storeVars, wins, dual, reqs>>
       ELSE /\ Commit(p, DelTask(proc[p], t), Op("logoutThrow", p, t.id, t.pc, t.errs))
            /\ UNCHANGED <<issued, storeVars, wins, dual, reqs>>

\* waSessions.ts:246-253: the outcome of sock.logout(), then lock.release()
\* starts.  A successful logout ends the socket; were its listeners still
\* attached, they see the close with cause loggedOut.
SockLogoutStep(p, t, ok, unsubOk) ==
  /\ t.pc = "sockLogout"
  /\ Fault(~ok \/ ~unsubOk)
  /\ ~unsubOk => /\ ok
                 /\ proc[p].socks[t.sk].phase \in {"connecting", "open"}
                 /\ proc[p].socks[t.sk].on
                 /\ Unsubscribes(proc[p], t.id)
  /\ LET L0 == DelTask(proc[p], t)
         k  == t.sk
         L1 == IF ok /\ L0.socks[k].phase \in {"connecting", "open"}
                 THEN LET Lc == [L0 EXCEPT !.socks[k].phase = "closed"]
                      IN  IF Lc.socks[k].on THEN onClose(Lc, k, TRUE, unsubOk) ELSE Lc
                 ELSE L0
         t1 == IF ok THEN t ELSE [t EXCEPT !.errs = @ \cup {"sockLogout"}]
     IN  Commit(p, logoutRelease(L1, t1, t.s), Op("sockLogout", p, t.id, ok, 0))
  /\ UNCHANGED <<issued, storeVars, wins, dual, reqs>>

\* A faulty ReleaseStep: release() has no catch, a store error rejects the
\* caller.
ReleaseStep_throws(p, t, ok) ==
  /\ t.pc = "release"
  /\ Fault(~ok)
  /\ LET L0 == DelTask(proc[p], t)
         r  == RELEASE_LUA(lockKey[t.id], L0.locks[t.lk].token)
     IN  IF ok
           THEN /\ lockKey' = [lockKey EXCEPT ![t.id] = r.key]
                /\ wins' = [wins EXCEPT ![t.id] = WinsAfter(t.id, r.key)]
                /\ Commit(p, AddTask([L0 EXCEPT !.sessions[t.id] = 0, !.streak[t.id] = 0],
                                      [t EXCEPT !.pc = "smembers", !.lk = 0]),
                           Op("release", p, t.id, ok, r.res))
           ELSE /\ UNCHANGED <<lockKey, wins>>
                /\ Commit(p, L0, Op("logoutThrow", p, t.id, t.pc, t.errs))
  /\ UNCHANGED <<issued, credsKey, keyedKeys, sessSet, tokenKey, dual, reqs>>

\* locks.ts:77-81 and waSessions.ts:255-259: the outcome of the conditional
\* delete, then the record is dropped and deleteRedisAuth starts.
ReleaseStep(p, t, ok) ==
  /\ t.pc = "release"
  /\ Fault(~ok)
  /\ LET L0 == DelTask(proc[p], t)
         r  == RELEASE_LUA(lockKey[t.id], L0.locks[t.lk].token)
         k1 == IF ok THEN r.key ELSE lockKey[t.id]
         t1 == IF ok THEN t ELSE [t EXCEPT !.errs = @ \cup {"release"}]
     IN  /\ lockKey' = [lockKey EXCEPT ![t.id] = k1]
         /\ wins' = [wins EXCEPT ![t.id] = WinsAfter(t.id, k1)]
         /\ Commit(p, AddTask([L0 EXCEPT !.sessions[t.id] = 0, !.streak[t.id] = 0],
                               [t1 EXCEPT !.pc = "smembers", !.lk = 0]),
                    Op("release", p, t.id, ok, IF ok THEN r.res ELSE 0))
  /\ UNCHANGED <<issued, credsKey, keyedKeys, sessSet, tokenKey, dual, reqs>>

\* A store command of deleteRedisAuth failed: logoutSession rejects.
LogoutThrow(p, t) ==
  /\ Commit(p, DelTask(proc[p], t), Op("logoutThrow", p, t.id, t.pc, t.errs))
  /\ UNCHANGED <<issued, storeVars, wins, dual, reqs>>

\* waAuthRedis.ts:140
SmembersStep(p, t, ok) ==
  /\ t.pc = "smembers"
  /\ Fault(~ok)
  /\ IF ok
       THEN /\ Commit(p, AddTask(DelTask(proc[p], t),
                                 [t EXCEPT !.pc = "scan", !.toks = sessSet[t.id]]),
                      Op("smembers", p, t.id, 0, 0))
            /\ UNCHANGED <<issued, storeVars, wins, dual, reqs>>
       ELSE LogoutThrow(p, t)

\* waAuthRedis.ts:155-164
ScanStep(p, t, ok) ==
  /\ t.pc = "scan"
  /\ Fault(~ok)
  /\ IF ok
       THEN /\ Commit(p, AddTask(DelTask(proc[p], t),
                                 [t EXCEPT !.pc = "exec",
                                           !.creds = (credsKey[t.id] # 0),
                                           !.kids = keyedKeys[t.id]]),
                      Op("scan", p, t.id, 0, 0))
            /\ UNCHANGED <<issued, storeVars, wins, dual, reqs>>
       ELSE LogoutThrow(p, t)

\* redisClient.ts:9-18: a process talks to the store over one connection, and
\* the store executes its commands in the order they were sent.  The SET of
\* server.ts:72 is sent in the turn in which createSession returns, before
\* any event of the new connector is handled; the commands of a
\* deleteRedisAuth that such an event starts are executed after it.
SentBefore(p, t) ==
  \A u \in BagToSet(proc[p].tasks) : ~(u.pc = "tokenSet" /\ u.id = t.id)

\* A faulty ExecStep: the pattern deleted is baileys:*, not baileys:<id>:*.
ExecStep_wipesAll(p, t, ok) ==
  /\ t.pc = "exec"
  /\ SentBefore(p, t)
  /\ Fault(~ok)
  /\ IF ok
       THEN /\ tokenKey' = [x \in Tokens |-> IF x \in t.toks THEN "" ELSE tokenKey[x]]
            /\ sessSet' = [sessSet EXCEPT ![t.id] = {}]
            /\ credsKey' = [i \in Ids |-> 0]
            /\ keyedKeys' = [i \in Ids |-> {}]
            /\ Commit(p, DelTask(proc[p], t), Op("logoutDone", p, t.id, t.had, t.errs))
            /\ UNCHANGED <<issued, lockKey, wins, dual, reqs>>
       ELSE LogoutThrow(p, t)

\* A faulty ExecStep: the pipeline deletes the token-index set and leaves the
\* token records.
ExecStep_keepsTokens(p, t, ok) ==
  /\ t.pc = "exec"
  /\ SentBefore(p, t)
  /\ Fault(~ok)
  /\ IF ok
       THEN /\ sessSet' = [sessSet EXCEPT ![t.id] = {}]
            /\ credsKey' = [credsKey EXCEPT ![t.id] = IF t.creds THEN 0 ELSE @]
            /\ keyedKeys' = [keyedKeys EXCEPT ![t.id] = @ \ t.kids]
            /\ Commit(p, DelTask(proc[p], t), Op("logoutDone", p, t.id, t.had, t.errs))
            /\ UNCHANGED <<issued, lockKey, tokenKey, wins, dual, reqs>>
       ELSE LogoutThrow(p, t)

\* waAuthRedis.ts:141-148, 166-167: the pipeline runs and logoutSession
\* returns { ok: true }.
ExecStep(p, t, ok) ==
  /\ t.pc = "exec"
  /\ SentBefore(p, t)
  /\ Fault(~ok)
  /\ IF ok
       THEN /\ tokenKey' = [x \in Tokens |-> IF x \in t.toks THEN "" ELSE tokenKey[x]]
            /\ sessSet' = [sessSet EXCEPT ![t.id] = {}]
            /\ credsKey' = [credsKey EXCEPT ![t.id] = IF t.creds THEN 0 ELSE @]
            /\ keyedKeys' = [keyedKeys EXCEPT ![t.id] = @ \ t.kids]
            /\ Commit(p, DelTask(proc[p], t), Op("logoutDone", p, t.id, t.had, t.errs))
            /\ UNCHANGED <<issued, lockKey, wins, dual, reqs>>
       ELSE LogoutThrow(p, t)

\* waSessions.ts:65-72: the reconnect timer fires.
TimerFire(p, k) ==
  /\ Fault(FALSE)
  /\ proc[p].timers[k].armed
  /\ LET tm == proc[p].timers[k]
         L1 == [proc[p] EXCEPT !.timers[k].armed = FALSE,
                               !.heap[tm.s].backoffTimer = 0]
     IN  Commit(p, createSession(L1, [Task("timer", tm.id, TRUE) EXCEPT !.s = tm.s], TRUE),
                Op("timerFire", p, tm.id, 0, 0))
  /\ UNCHANGED <<issued, storeVars, wins, dual, reqs>>

\* The connector reports connection: 'open'.
SockOpen(p, k) ==
  /\ Fault(FALSE)
  /\ proc[p].socks[k].phase = "connecting"
  /\ proc[p].socks[k].on
  /\ LET L1 == [proc[p] EXCEPT !.socks[k].phase = "open"]
     IN  Commit(p, IF L1.socks[k].on THEN onOpen(L1, k) ELSE L1,
                Op("open", p, L1.socks[k].id, 0, L1.socks[k].on))
  /\ UNCHANGED <<issued, storeVars, wins, dual, reqs>>

\* The connector reports a pairing artifact: a new one, or once more the one
\* its record caches.
SockQr(p, k, fresh) ==
  /\ Fault(FALSE)
  /\ proc[p].socks[k].phase = "connecting"
  /\ proc[p].socks[k].on
  /\ LET e  == proc[p].socks[k].entry
         qr == IF fresh THEN proc[p].qrs + 1 ELSE proc[p].heap[e].lastQr
         L1 == IF fresh THEN [proc[p] EXCEPT !.qrs = qr] ELSE proc[p]
     IN  /\ qr \in 1..MaxQr
         /\ Commit(p, onQr(L1, k, qr), Op("qr", p, L1.socks[k].id, qr, 0))
  /\ UNCHANGED <<issued, storeVars, wins, dual, reqs>>

\* The connector reports connection: 'close' with a cause.
SockClose(p, k, terminal, unsubOk) ==
  /\ Fault(~unsubOk)
  /\ ~unsubOk => /\ terminal
                 /\ proc[p].socks[k].on
                 /\ Unsubscribes(proc[p], proc[p].socks[k].id)
  /\ proc[p].socks[k].phase \in {"connecting", "open"}
  /\ LET L1 == [proc[p] EXCEPT !.socks[k].phase = "closed"]
     IN  Commit(p, IF L1.socks[k].on THEN onClose(L1, k, terminal, unsubOk) ELSE L1,
                Op(IF terminal THEN "closeTerminal" ELSE "closeTransient",
                   p, L1.socks[k].id, 0, L1.socks[k].on))
  /\ UNCHANGED <<issued, storeVars, wins, dual, reqs>>

\* A faulty saveCreds: the text written does not depend on the credentials.
saveCreds_stale(creds) == 1

\* waAuthRedis.ts:52-54: JSON.stringify of the connector's credentials.  The
\* text of version c is the non-empty blob c + 1; 0 is the absent key.
saveCreds(creds) == creds + 1

\* A faulty creds.update listener: a failed save is handled as a transient
\* close of the connector.
CredsUpdate_fatal(p, k, ok) ==
  /\ Fault(~ok)
  /\ ~ok => proc[p].socks[k].onCreds
  /\ proc[p].socks[k].phase \in {"connecting", "open"}
  /\ proc[p].socks[k].creds < MaxCred
  /\ LET c  == proc[p].socks[k].creds + 1
         id == proc[p].socks[k].id
         L1 == [proc[p] EXCEPT !.socks[k].creds = c]
         L2 == [L1 EXCEPT !.socks[k].phase = "closed"]
     IN  /\ credsKey' = IF ok /\ L1.socks[k].onCreds
                          THEN [credsKey EXCEPT ![id] = saveCreds(c)]
                          ELSE credsKey
         /\ Commit(p, IF ok THEN L1 ELSE onClose(L2, k, FALSE, TRUE),
                    Op("credsUpdate", p, id, 0, ok /\ L1.socks[k].onCreds))
  /\ UNCHANGED <<issued, lockKey, keyedKeys, sessSet, tokenKey, wins, dual, reqs>>

\* waSessions.ts:149-155: the connector changed its credentials and emits
\* creds.update; a failed save is logged and swallowed.
CredsUpdate(p, k, ok) ==
  /\ Fault(~ok)
  /\ ~ok => proc[p].socks[k].onCreds
  /\ proc[p].socks[k].phase \in {"connecting", "open"}
  /\ proc[p].socks[k].creds < MaxCred
  /\ LET c  == proc[p].socks[k].creds + 1
         id == proc[p].socks[k].id
         L1 == [proc[p] EXCEPT !.socks[k].creds = c]
     IN  /\ credsKey' = IF ok /\ L1.socks[k].onCreds
                          THEN [credsKey EXCEPT ![id] = saveCreds(c)]
                          ELSE credsKey
         /\ Commit(p, L1, Op("credsUpdate", p, id, 0, ok /\ L1.socks[k].onCreds))
  /\ UNCHANGED <<issued, lockKey, keyedKeys, sessSet, tokenKey, wins, dual, reqs>>

\* waAuthRedis.ts:90-106: the connector's key store writes (value) or
\* deletes (null) one keyed entry in a MULTI/EXEC batch.
KeysSet(p, k, kid, value) ==
  /\ Fault(FALSE)
  /\ proc[p].socks[k].phase \in {"connecting", "open"}
  /\ LET id == proc[p].socks[k].id
     IN  /\ keyedKeys' = [keyedKeys EXCEPT ![id] =
                            IF value THEN @ \cup {kid} ELSE @ \ {kid}]
         /\ keyedKeys'[id] # keyedKeys[id]
         /\ last' = Op("keysSet", p, id, 0, value)
  /\ UNCHANGED <<issued, lockKey, credsKey, sessSet, tokenKey, proc, wins, dual, reqs>>

\* A faulty renew: a rejected store command stops the interval as a token
\* mismatch does.
Renew_stopsOnError(p, l, ok) ==
  /\ Fault(~ok)
  /\ proc[p].locks[l].renewing
  /\ proc[p].locks[l].due = 0
  /\ LET lk == proc[p].locks[l]
         r  == RENEW_LUA(lockKey[lk.id], lk.token)
     IN  /\ lockKey' = IF ok THEN [lockKey EXCEPT ![lk.id] = r.key] ELSE lockKey
         /\ Commit(p, IF ~ok \/ r.res = 0
                         THEN clearInterval(proc[p], l)
                         ELSE [proc[p] EXCEPT !.locks[l].due = RENEW_EVERY],
                    Op("renew", p, lk.id, ok, IF ok THEN r.res ELSE 0))
  /\ UNCHANGED <<issued, credsKey, keyedKeys, sessSet, tokenKey, wins, dual, reqs>>

\* locks.ts:60-70: one run of the renew interval.
Renew(p, l, ok) ==
  /\ Fault(~ok)
  /\ proc[p].locks[l].renewing
  /\ proc[p].locks[l].due = 0
  /\ LET lk == proc[p].locks[l]
         r  == RENEW_LUA(lockKey[lk.id], lk.token)
     IN  /\ lockKey' = IF ok THEN [lockKey EXCEPT ![lk.id] = r.key] ELSE lockKey
         /\ Commit(p, IF ok /\ r.res = 0
                         THEN clearInterval(proc[p], l)
                         ELSE [proc[p] EXCEPT !.locks[l].due = RENEW_EVERY],
                    Op("renew", p, lk.id, ok, IF ok THEN r.res ELSE 0))
  /\ UNCHANGED <<issued, credsKey, keyedKeys, sessSet, tokenKey, wins, dual, reqs>>

\* p drives a live connector for id: a socket that has not closed and whose
\* connection.update listener (waSessions.ts:158) is attached.
Live(p, id) ==
  \E k \in DOMAIN proc[p].socks :
    /\ proc[p].socks[k].id = id
    /\ proc[p].socks[k].phase \in {"connecting", "open"}
    /\ proc[p].socks[k].on

DualCap == LOCK_TTL + 2

\* held: the ticks a lease object has been renewing for (a history field),
\* counted up to two TTL periods.
HeldCap == 2 * LOCK_TTL

\* 5 s pass: every renew interval that is due has run; keys lose 5 s of TTL
\* and expire at 0.  held is counted up to cap.
Tick(cap) ==
  /\ Fault(FALSE)
  /\ \A p \in Procs : \A l \in DOMAIN proc[p].locks :
       proc[p].locks[l].renewing => proc[p].locks[l].due > 0
  /\ lockKey' = [i \in Ids |->
       IF lockKey[i] = NoKey \/ lockKey[i].ttl = 1 THEN NoKey
       ELSE [lockKey[i] EXCEPT !.ttl = @ - 1]]
  /\ wins' = [i \in Ids |-> WinsAfter(i, lockKey'[i])]
  /\ proc' = [p \in Procs |->
       [proc[p] EXCEPT !.locks = [l \in DOMAIN @ |->
             IF @[l].renewing
               THEN [@[l] EXCEPT !.due = @ - 1, !.held = Min(@ + 1, cap)]
               ELSE @[l]]]]
  /\ dual' = [i \in Ids |->
       IF Cardinality({p \in Procs : Live(p, i)}) >= 2
         THEN Min(dual[i] + 1, DualCap) ELSE 0]
  /\ last' = Op("tick", "", "", 0, 0)
  /\ UNCHANGED <<issued, credsKey, keyedKeys, sessSet, tokenKey, reqs>>

\* A faulty shutdown: the sessions of the process are logged out on the way
\* down, their credentials are deleted.
shutdown_logsOut(p) ==
  /\ Fault(FALSE)
  /\ ~proc[p].exited
  /\ proc[p] # InitProc
  /\ proc' = [proc EXCEPT ![p] = [InitProc EXCEPT !.exited = TRUE]]
  /\ credsKey' = [i \in Ids |-> IF proc[p].sessions[i] # 0 THEN 0 ELSE credsKey[i]]
  /\ keyedKeys' = [i \in Ids |-> IF proc[p].sessions[i] # 0 THEN {} ELSE keyedKeys[i]]
  /\ last' = Op("shutdown", p, "", 0, 0)
  /\ UNCHANGED <<issued, lockKey, sessSet, tokenKey, wins, dual, reqs>>

\* server.ts:301-319: SIGINT/SIGTERM.  The process exits without logging its
\* sessions out: memory, timers and renew intervals are gone, the store keeps
\* what it has, and the process starts again with an empty table.
shutdown(p) ==
  /\ Fault(FALSE)
  /\ ~proc[p].exited
  /\ proc[p] # InitProc
  /\ proc' = [proc EXCEPT ![p] = [InitProc EXCEPT !.exited = TRUE]]
  /\ last' = Op("shutdown", p, "", 0, 0)
  /\ UNCHANGED <<issued, storeVars, wins, dual, reqs>>

\* ------------------------------------------------------------ auto-restore
\* The orders in which a SCAN can hand back the keys of S.
Orders(S) ==
  {f \in [1..Cardinality(S) -> S] : \A i, j \in DOMAIN f : f[i] = f[j] => i = j}

\* waSessions.ts:276-290 extractIdFromKey on the keys of one pattern: the ids
\* that have a key sess:<id>:tokens, or a key baileys:<id>:creds.
SessIds  == {i \in Ids : sessSet[i] # {}}
CredsIds == {i \in Ids : credsKey[i] # 0}
\* waSessions.ts:323-328: the ids that have a key lock:wa:<id>.
LockedIds == {i \in Ids : lockKey[i] # NoKey}

\* waSessions.ts:342: the call createSession(id, false) of the loop body, up
\* to the first await of createSession.
restoreCall(L, id) ==
  createSession([L EXCEPT !.restore.pc = "create", !.restore.calls[id] = @ + 1],
                Task("restore", id, FALSE), TRUE)

\* A faulty loop: a candidate that was seen locked is attempted all the same.
restoreNext_ignoresLocked(L) ==
  LET r == L.restore IN
  IF r.i >= Len(r.ids)
    THEN [L EXCEPT !.restore.pc = "done", !.restore.i = Len(r.ids)]
    ELSE restoreCall([L EXCEPT !.restore.i = r.i + 1, !.restore.attempt = 0],
                     r.ids[r.i + 1])

\* waSessions.ts:332-342, 365-366: the loop moves on to the next candidate
\* that was not seen locked and calls createSession for it, or returns.
restoreNext(L) ==
  LET r    == L.restore
      rest == {j \in (r.i + 1)..Len(r.ids) : r.ids[j] \notin r.locked}
  IN  IF rest = {}
        THEN [L EXCEPT !.restore.pc = "done", !.restore.i = Len(r.ids)]
        ELSE LET j == CHOOSE x \in rest : \A y \in rest : x <= y
             IN  restoreCall([L EXCEPT !.restore.i = j, !.restore.attempt = 0],
                             r.ids[j])

\* A faulty catch block: every failure is retried after the delay.
restoreSettled_retriesAll(L) ==
  LET r == L.restore IN
  CASE r.code = "ok" ->
         restoreNext([L EXCEPT !.restore.restored = Append(@, r.ids[r.i])])
    [] r.attempt < RETRIES ->
         [L EXCEPT !.restore.pc = "wait", !.restore.delay = RETRY_DELAY_MS]
    [] OTHER -> restoreNext(L)

\* waSessions.ts:343-357: what the loop body does once createSession settled.
restoreSettled(L) ==
  LET r == L.restore IN
  CASE r.code = "ok" ->
         restoreNext([L EXCEPT !.restore.restored = Append(@, r.ids[r.i])])
    [] r.code = "423" /\ r.attempt < RETRIES ->
         [L EXCEPT !.restore.pc = "wait", !.restore.delay = RETRY_DELAY_MS]
    [] OTHER -> restoreNext(L)

\* server.ts:288-290: the startup timer fires and restoreAllSessionsFromRedis
\* sends its first SCAN.
RestoreStart(p) ==
  /\ Fault(FALSE)
  /\ proc[p].restore.pc = "idle"
  /\ Commit(p, [proc[p] EXCEPT !.restore.pc = "scanSess"], Op("restoreStart", p, "", 0, 0))
  /\ UNCHANGED <<issued, storeVars, wins, dual, reqs>>

\* waSessions.ts:314-320 with 292-307: the reply of scanKeys for one of the
\* two candidate patterns; new ids join the set in the order of the reply.
\* A rejected SCAN rejects restoreAllSessionsFromRedis (no try around it);
\* server.ts:292-294 logs the error.
RestoreScanIds(p, ok, ord) ==
  /\ proc[p].restore.pc \in {"scanSess", "scanCreds"}
  /\ Fault(~ok)
  /\ LET r     == proc[p].restore
         found == IF r.pc = "scanSess" THEN SessIds ELSE CredsIds
         old   == {r.ids[j] : j \in DOMAIN r.ids}
     IN  /\ ord \in Orders(found \ old)
         /\ ~ok => ord \in Orders({})
         /\ Commit(p, IF ok
                        THEN [proc[p] EXCEPT
                                !.restore.ids = @ \o ord,
                                !.restore.pc = IF r.pc = "scanSess"
                                                 THEN "scanCreds" ELSE "scanLocks"]
                        ELSE [proc[p] EXCEPT !.restore.pc = "rejected"],
                   Op("restoreScan", p, "", ok, r.pc))
  /\ UNCHANGED <<issued, storeVars, wins, dual, reqs>>

\* waSessions.ts:323-342: the reply of scanKeys('lock:wa:*'), and the loop up
\* to its first createSession.
RestoreScanLocks(p, ok) ==
  /\ proc[p].restore.pc = "scanLocks"
  /\ Fault(~ok)
  /\ Commit(p, IF ok
                 THEN restoreNext([proc[p] EXCEPT !.restore.locked = LockedIds])
                 ELSE [proc[p] EXCEPT !.restore.pc = "rejected"],
            Op("restoreScan", p, "", ok, "scanLocks"))
  /\ UNCHANGED <<issued, storeVars, wins, dual, reqs>>

\* waSessions.ts:343-366: the loop resumes after `await createSession`.
RestoreSettle(p) ==
  /\ proc[p].restore.pc = "settled"
  /\ Fault(FALSE)
  /\ Commit(p, restoreSettled(proc[p]),
            Op("restoreSettle", p, proc[p].restore.ids[proc[p].restore.i],
               proc[p].restore.code, proc[p].restore.attempt))
  /\ UNCHANGED <<issued, storeVars, wins, dual, reqs>>

\* waSessions.ts:349-350, 340-342: the retry delay is over, the loop counts
\* the attempt and calls createSession again.
RestoreRetry(p) ==
  /\ proc[p].restore.pc = "wait"
  /\ Fault(FALSE)
  /\ LET r == proc[p].restore IN
     Commit(p, restoreCall([proc[p] EXCEPT !.restore.attempt = @ + 1], r.ids[r.i]),
            Op("restoreRetry", p, r.ids[r.i], r.attempt + 1, r.delay))
  /\ UNCHANGED <<issued, storeVars, wins, dual, reqs>>

\* ------------------------------------------------------------- POST /send
\* server.ts:227-254: the payload is handed to the connector the record s
\* refers to now (s.sock!.sendMessage); without one the call throws and the
\* catch logs it.  The step records the status of the record and the phase of
\* the handle at the hand-over.
sendMessage(p, L, t) ==
  LET k == L.heap[t.s].sock IN
  IF k = 0 THEN Op("sendThrow", p, t.id, "send", 0)
           ELSE Op("send", p, t.id, L.heap[t.s].status, L.socks[k].phase)

\* server.ts:145-159, 188-199, 228-254: POST /send up to its first wait.
\* kind: what the body carries ("none": nothing that can be sent, "text": a
\* payload built without waiting, "url": a media link to fetch); later: the
\* delay parameter is positive.  Without a record getSession restores the
\* session (the connector it constructs is not open when it resolves, so the
\* request ends with 404 or 409).
SendReq(p, id, kind, later, max) ==
  /\ Fault(FALSE)
  /\ Request(max)
  /\ HasToken(id)
  /\ LET L == proc[p]
         s == L.sessions[id]
         t == [Task(IF later THEN "sendLater" ELSE "send", id, FALSE) EXCEPT !.s = s]
     IN  IF s = 0
           THEN Commit(p, createSession(L, Task("lazy", id, FALSE), TRUE),
                       Op("getSession", p, id, 0, 0))
         ELSE IF L.heap[s].sock = 0
           THEN Commit(p, L, Op("sendRefused", p, id, 404, 0))
         ELSE IF L.heap[s].status # "open"
           THEN Commit(p, L, Op("sendRefused", p, id, 409, 0))
         ELSE IF kind = "none"
           THEN Commit(p, L, Op("sendRefused", p, id, 400, 0))
         ELSE IF kind = "url"
           THEN Commit(p, AddTask(L, [t EXCEPT !.pc = "fetch"]),
                       Op("sendAccept", p, id, kind, later))
         ELSE IF later
           THEN Commit(p, AddTask(L, [t EXCEPT !.pc = "delay"]),
                       Op("sendAccept", p, id, kind, later))
           ELSE Commit(p, L, sendMessage(p, L, t))
  /\ UNCHANGED <<issued, storeVars, wins, dual>>

\* server.ts:195, 228-254: fetchBuffer settles; a failure goes to next(e).
FetchStep(p, t, ok) ==
  /\ t.pc = "fetch"
  /\ Fault(~ok)
  /\ LET L0 == DelTask(proc[p], t) IN
     IF ~ok THEN Commit(p, L0, Op("sendThrow", p, t.id, t.pc, 0))
     ELSE IF t.origin = "sendLater"
       THEN Commit(p, AddTask(L0, [t EXCEPT !.pc = "delay"]),
                   Op("fetched", p, t.id, 0, 0))
       ELSE Commit(p, L0, sendMessage(p, L0, t))
  /\ UNCHANGED <<issued, storeVars, wins, dual, reqs>>

\* server.ts:238-244: the timer of a delayed send fires.
DelayStep(p, t) ==
  /\ t.pc = "delay"
  /\ Fault(FALSE)
  /\ Commit(p, DelTask(proc[p], t), sendMessage(p, DelTask(proc[p], t), t))
  /\ UNCHANGED <<issued, storeVars, wins, dual, reqs>>

\* ----------------------------------------------------------- specifications
\* The steps of one process, grouped.  OK and U are the outcomes the
\* environment may give a store command or connector call (OK) and a listener
\* removal (U): {TRUE} when it never fails, BOOLEAN when it may.

\* server.ts:62-80, 83-88, 262-270
ApiCreate(p, max) ==
  \/ \E id \in ApiIds, tok \in ApiTokens : PostSession(p, id, tok, max)
  \/ \E id \in ApiIds : GetSessionReq(p, id, max)

ApiLazy(p, max) == \E id \in ApiIds : GetSessionReq(p, id, max)

ApiLogout(p, U, max) == \E id \in ApiIds, u \in U : LogoutReq(p, id, u, max)

\* server.ts:141-258
ApiSend(p, max) ==
  \E id \in ApiIds, kind \in {"none", "text", "url"}, later \in BOOLEAN :
    SendReq(p, id, kind, later, max)

SendSteps(p, OK) ==
  \/ \E t \in BagToSet(proc[p].tasks), ok \in OK : FetchStep(p, t, ok)
  \/ \E t \in BagToSet(proc[p].tasks) : DelayStep(p, t)

\* waSessions.ts:101-209, the continuations of createSession
CreateSteps(p, OK, U) ==
  \/ \E t \in BagToSet(proc[p].tasks), ok \in OK : AcquireStep(p, t, ok)
  \/ \E t \in BagToSet(proc[p].tasks), ok \in OK, u \in U : LoadStep(p, t, ok, u)

PostSteps(p, OK) ==
  \E t \in BagToSet(proc[p].tasks), ok \in OK : TokenSetStep(p, t, ok)

\* waSessions.ts:225-261, the continuations of logoutSession
LogoutSteps(p, OK, U) ==
  \/ \E t \in BagToSet(proc[p].tasks), ok \in OK, u \in U : SockLogoutStep(p, t, ok, u)
  \/ \E t \in BagToSet(proc[p].tasks), ok \in OK : ReleaseStep(p, t, ok)
  \/ \E t \in BagToSet(proc[p].tasks), ok \in OK : SmembersStep(p, t, ok)
  \/ \E t \in BagToSet(proc[p].tasks), ok \in OK : ScanStep(p, t, ok)
  \/ \E t \in BagToSet(proc[p].tasks), ok \in OK : ExecStep(p, t, ok)

\* waSessions.ts:65-72, 158-206: timers and connector events
ConnectorSteps(p, U) ==
  \/ \E k \in DOMAIN proc[p].timers : TimerFire(p, k)
  \/ \E k \in DOMAIN proc[p].socks : SockOpen(p, k)
  \/ \E k \in DOMAIN proc[p].socks, c \in BOOLEAN, u \in U : SockClose(p, k, c, u)

\* waSessions.ts:161-174: the connector's pairing artifacts
PairingSteps(p) ==
  \E k \in DOMAIN proc[p].socks, fresh \in BOOLEAN : SockQr(p, k, fresh)

\* waSessions.ts:149-155, waAuthRedis.ts:90-106: the connector's writes
DataSteps(p, OK) ==
  \/ \E k \in DOMAIN proc[p].socks, ok \in OK : CredsUpdate(p, k, ok)
  \/ \E k \in DOMAIN proc[p].socks, kid \in KeyIds, v \in BOOLEAN : KeysSet(p, k, kid, v)

\* locks.ts:60-70
LeaseSteps(p, OK) ==
  \E l \in DOMAIN proc[p].locks, ok \in OK : Renew(p, l, ok)

\* One process, every step, any outcome (at most MaxFault failures).
Solo == {"p1"}

NextSession ==
  \E p \in Solo :
    \/ ApiCreate(p, MaxReq)
    \/ ApiLogout(p, BOOLEAN, MaxReq)
    \/ CreateSteps(p, BOOLEAN, BOOLEAN)
    \/ PostSteps(p, BOOLEAN)
    \/ LogoutSteps(p, BOOLEAN, BOOLEAN)
    \/ ConnectorSteps(p, BOOLEAN)
    \/ DataSteps(p, BOOLEAN)

SpecSession == Init /\ [][NextSession]_vars

\* One process and one more request; the store answers, a listener removal
\* may fail, and the connector writes nothing.
NextTeardown ==
  \E p \in Solo :
    \/ ApiCreate(p, MaxReq + 1)
    \/ ApiLogout(p, BOOLEAN, MaxReq + 1)
    \/ CreateSteps(p, {TRUE}, BOOLEAN)
    \/ PostSteps(p, {TRUE})
    \/ LogoutSteps(p, {TRUE}, BOOLEAN)
    \/ ConnectorSteps(p, BOOLEAN)

SpecTeardown == Init /\ [][NextTeardown]_vars

\* The fleet on the clock: the store answers, but a renewal may fail.
NextLease ==
  \/ \E p \in Procs :
       \/ ApiCreate(p, MaxReq)
       \/ ApiLogout(p, {TRUE}, MaxReq)
       \/ CreateSteps(p, {TRUE}, {TRUE})
       \/ PostSteps(p, {TRUE})
       \/ LogoutSteps(p, {TRUE}, {TRUE})
       \/ ConnectorSteps(p, {TRUE})
       \/ LeaseSteps(p, BOOLEAN)
  \/ Tick(0)

SpecLease == Init /\ [][NextLease]_vars

\* The lease on the clock: sessions are created, restored and logged out,
\* renew intervals run (a renewal may fail), a process may be shut down, and
\* connectors stay as they are.
NextClock ==
  \/ \E p \in Procs :
       \/ ApiCreate(p, MaxReq)
       \/ ApiLogout(p, {TRUE}, MaxReq)
       \/ CreateSteps(p, {TRUE}, {TRUE})
       \/ PostSteps(p, {TRUE})
       \/ LogoutSteps(p, {TRUE}, {TRUE})
       \/ LeaseSteps(p, BOOLEAN)
       \/ shutdown(p)
  \/ Tick(HeldCap)

SpecClock == Init /\ [][NextClock]_vars

\* Release on the clock: one more request, so that a session can be logged
\* out twice or logged out after its lease was lost and taken over.
NextRelease ==
  \/ \E p \in Procs :
       \/ ApiCreate(p, MaxReq + 1)
       \/ ApiLogout(p, {TRUE}, MaxReq + 1)
       \/ CreateSteps(p, {TRUE}, {TRUE})
       \/ PostSteps(p, {TRUE})
       \/ LogoutSteps(p, {TRUE}, {TRUE})
       \/ LeaseSteps(p, BOOLEAN)
  \/ Tick(0)

SpecRelease == Init /\ [][NextRelease]_vars

\* The fleet after a restart: the store holds a registered session and the
\* credentials and keyed entries of other sessions, the processes hold
\* nothing.
InitRestart ==
  /\ lockKey   = [i \in Ids |-> NoKey]
  /\ \E c \in {0, Corrupt} \cup {saveCreds(c) : c \in 0..MaxCred} :
       credsKey = [i \in Ids |-> IF i \in ApiIds THEN c ELSE saveCreds(0)]
  /\ \E K \in SUBSET KeyIds :
       keyedKeys = [i \in Ids |-> IF i \in ApiIds THEN K ELSE KeyIds]
  /\ \E i \in ApiIds, j \in {CHOOSE x \in Ids \ ApiIds : TRUE} :
       /\ sessSet  = [x \in Ids |-> IF x = i THEN ApiTokens
                                    ELSE IF x = j THEN Tokens \ ApiTokens ELSE {}]
       /\ tokenKey = [x \in Tokens |-> IF x \in ApiTokens THEN i ELSE j]
       /\ issued   = Tokens
  /\ proc      = [p \in Procs |-> InitProc]
  /\ reqs      = 0
  /\ faults    = 0
  /\ last      = NoOp
  /\ wins      = [i \in Ids |-> 0]
  /\ dual      = [i \in Ids |-> 0]

NextRestart ==
  \E p \in Procs :
    \/ ApiLazy(p, MaxReq)
    \/ ApiLogout(p, {TRUE}, MaxReq)
    \/ CreateSteps(p, {TRUE}, {TRUE})
    \/ LogoutSteps(p, {TRUE}, {TRUE})
    \/ ConnectorSteps(p, {TRUE})
    \/ DataSteps(p, {TRUE})

SpecRestart == InitRestart /\ [][NextRestart]_vars

\* waSessions.ts:309-328, the three scans
RestoreScans(p, OK) ==
  \/ RestoreStart(p)
  \/ \E ok \in OK, ord \in UNION {Orders(S) : S \in SUBSET Ids} : RestoreScanIds(p, ok, ord)
  \/ \E ok \in OK : RestoreScanLocks(p, ok)

\* waSessions.ts:309-367
RestoreSteps(p, OK) ==
  \/ RestoreScans(p, OK)
  \/ RestoreSettle(p)
  \/ RestoreRetry(p)

\* The store a fleet finds when it starts: any of the sessions has stored
\* credentials, a registered session has its token index, and any of the
\* lock keys is held by an instance outside the fleet.  At most MaxSock of the
\* candidates are free to be restored.
Elsewhere == <<"elsewhere", 1>>

InitStartup ==
  /\ \E C \in SUBSET Ids, K \in SUBSET Ids, T \in SUBSET ApiIds :
       /\ Cardinality((C \cup T) \ K) <= MaxSock
       /\ credsKey = [i \in Ids |-> IF i \in C THEN saveCreds(0) ELSE 0]
       /\ lockKey  = [i \in Ids |-> IF i \in K
                                      THEN [token |-> Elsewhere, ttl |-> LOCK_TTL]
                                      ELSE NoKey]
       /\ sessSet  = [i \in Ids |-> IF i \in T THEN ApiTokens ELSE {}]
       /\ tokenKey = [x \in Tokens |-> IF T = {} \/ x \notin ApiTokens
                                         THEN "" ELSE CHOOSE i \in T : TRUE]
       /\ issued   = IF T = {} THEN {} ELSE ApiTokens
       /\ wins     = [i \in Ids |-> IF i \in K THEN 1 ELSE 0]
  /\ keyedKeys = [i \in Ids |-> {}]
  /\ proc      = [p \in Procs |-> InitProc]
  /\ reqs      = 0
  /\ faults    = 0
  /\ last      = NoOp
  /\ dual      = [i \in Ids |-> 0]

\* One process starts alone and runs its auto-restore; a store command may
\* fail.  Nobody takes a lease meanwhile, so no retry delay is awaited.
NextStartup ==
  \E p \in Solo :
    \/ RestoreScans(p, BOOLEAN)
    \/ RestoreSettle(p)
    \/ CreateSteps(p, BOOLEAN, {TRUE})

SpecStartup == InitStartup /\ [][NextStartup]_vars

\* The processes of the fleet start together on a store without lock keys
\* and race for the leases; a store command may fail.
InitRace ==
  /\ InitStartup
  /\ \A i \in Ids : lockKey[i] = NoKey /\ sessSet[i] = {}

NextRace ==
  \E p \in Procs :
    \/ RestoreSteps(p, BOOLEAN)
    \/ CreateSteps(p, BOOLEAN, {TRUE})

SpecRace == InitRace /\ [][NextRace]_vars

\* One process starts over a store that holds a registered session, and
\* requests of its client arrive while the auto-restore runs; the store
\* answers.
InitWarm ==
  /\ InitStartup
  /\ issued # {}

NextWarm ==
  \E p \in Solo :
    \/ ApiLazy(p, MaxReq)
    \/ RestoreSteps(p, {TRUE})
    \/ CreateSteps(p, {TRUE}, {TRUE})

SpecWarm == InitWarm /\ [][NextWarm]_vars

\* A process starts over a store that holds a session created by POST /session
\* and not yet paired: requests and the auto-restore meet while its connectors
\* emit pairing artifacts, open and close (no reconnect timer has fired yet).
InitPairing ==
  /\ InitWarm
  /\ \A i \in Ids : credsKey[i] = 0 /\ lockKey[i] = NoKey

NextPairing ==
  \E p \in Solo :
    \/ ApiLazy(p, MaxReq)
    \/ RestoreSteps(p, {TRUE})
    \/ CreateSteps(p, {TRUE}, {TRUE})
    \/ \E k \in DOMAIN proc[p].socks : SockOpen(p, k)
    \/ \E k \in DOMAIN proc[p].socks : SockClose(p, k, FALSE, TRUE)
    \/ PairingSteps(p)

SpecPairing == InitPairing /\ [][NextPairing]_vars

\* Redeploy: the owner of the locked sessions is gone and its lock keys run
\* out on the clock, while the process that replaces it starts and runs its
\* auto-restore; the store answers and no client request arrives.  Nobody
\* takes a lease meanwhile, so no retry delay is awaited.
NextRedeploy ==
  \/ \E p \in Solo :
       \/ RestoreScans(p, {TRUE})
       \/ RestoreSettle(p)
       \/ CreateSteps(p, {TRUE}, {TRUE})
       \/ LeaseSteps(p, {TRUE})
  \/ Tick(0)

SpecRedeploy == InitStartup /\ [][NextRedeploy]_vars

\* One process over a store that holds registered sessions: clients send
\* messages and log out while the connectors open, close and reconnect; the
\* store answers and a media fetch may fail.
NextSend ==
  \E p \in Solo :
    \/ ApiSend(p, MaxReq)
    \/ SendSteps(p, BOOLEAN)
    \/ ApiLogout(p, {TRUE}, MaxReq)
    \/ CreateSteps(p, {TRUE}, {TRUE})
    \/ LogoutSteps(p, {TRUE}, {TRUE})
    \/ ConnectorSteps(p, {TRUE})

SpecSend == InitRestart /\ [][NextSend]_vars

\* Crash and restart: sessions are created and restored, connectors write
\* their credentials and keys, leases are renewed on the clock, and a
\* process may be shut down and start again; the store answers.
NextCrash ==
  \/ \E p \in Procs :
       \/ ApiCreate(p, MaxReq)
       \/ CreateSteps(p, {TRUE}, {TRUE})
       \/ PostSteps(p, {TRUE})
       \/ DataSteps(p, {TRUE})
       \/ LeaseSteps(p, {TRUE})
       \/ shutdown(p)
  \/ Tick(0)

SpecCrash == Init /\ [][NextCrash]_vars

\* The whole fleet.
Next ==
  \/ \E p \in Procs :
       \/ ApiCreate(p, MaxReq)
       \/ ApiLogout(p, BOOLEAN, MaxReq)
       \/ CreateSteps(p, BOOLEAN, BOOLEAN)
       \/ PostSteps(p, BOOLEAN)
       \/ LogoutSteps(p, BOOLEAN, BOOLEAN)
       \/ ConnectorSteps(p, BOOLEAN)
       \/ DataSteps(p, BOOLEAN)
       \/ PairingSteps(p)
       \/ LeaseSteps(p, BOOLEAN)
       \/ RestoreSteps(p, BOOLEAN)
       \/ shutdown(p)
  \/ Tick(HeldCap)

Spec == Init /\ [][Next]_vars

\* ------------------------------------------------------------------ claims
\* The lease objects of the fleet whose token is the store's value for id.
Holders(id) ==
  {x \in Procs \X (1..MaxLock) :
     /\ proc[x[1]].locks[x[2]].id = id
     /\ lockKey[id] # NoKey
     /\ proc[x[1]].locks[x[2]].token = lockKey[id].token}

\* C1: two processes never both drive a live connector for one id for
\* longer than a window bounded by the lease TTL (LOCK_TTL ticks, one more
\* for the granularity of the clock).
C1_BoundedOverlap == \A i \in Ids : dual[i] <= LOCK_TTL + 1

\* C2: at every instant at most one lease object holds the store's value for
\* an id, and of the acquireSessionLock calls made since the key was last
\* absent exactly one got a lock: a call gets one iff the key was absent.
C2_OneHolder ==
  /\ \A i \in Ids : Cardinality(Holders(i)) <= 1 /\ wins[i] <= 1
  /\ last.op = "acquire" => (last.a <=> ~last.b)

\* C2 witness: a call came back null while another process's lease object
\* holds the key.
C2_Witness ==
  /\ last.op = "acquire" /\ ~last.a
  /\ wins[last.id] = 1
  /\ \E x \in Holders(last.id) : x[1] # last.p

\* A connect attempt is pending for id in p: a reconnect timer is armed, or
\* the createSession(id, true) a timer started is in flight.
TimersIn(L, id) ==
  {k \in DOMAIN L.timers : L.timers[k].armed /\ L.timers[k].id = id}

TimersOf(p, id) == TimersIn(proc[p], id)

ReconnectPending(p, id) ==
  \/ TimersOf(p, id) # {}
  \/ \E t \in BagToSet(proc[p].tasks) : t.id = id /\ t.origin = "timer"

\* logoutSession(id) is running in p.
Terminating(p, id) ==
  \E t \in BagToSet(proc[p].tasks) : t.id = id /\ t.origin \in {"logout", "close"}

\* A listener of p has just handled a transient close for a session that has
\* a record and is not being terminated.
TransientClose ==
  /\ last.op = "closeTransient" /\ last.b
  /\ proc[last.p].sessions[last.id] # 0
  /\ ~Terminating(last.p, last.id)

\* C3: a session never dies silently: after every transient close of a
\* session that is not being terminated a new connect attempt is pending.
C3_NeverDiesSilently == TransientClose => ReconnectPending(last.p, last.id)

\* The delay the k-th consecutive close is to schedule.
RECURSIVE Pow2(_)
Pow2(n) == IF n = 0 THEN 1 ELSE 2 * Pow2(n - 1)

BackoffOf(k) == Min(RECONNECT_MIN * Pow2(k - 1), RECONNECT_MAX)

\* The connector of id has not opened since the record was made.
NeverOpened(p, id) == proc[p].heap[proc[p].sessions[id]].userJid = 0

\* C4: the k-th consecutive transient close with no open in between
\* schedules exactly one reconnect timer, of delay
\* min(RECONNECT_MIN * 2^(k-1), RECONNECT_MAX).  Stated for the closes of a
\* session whose connector has not opened yet, k counted from its creation.
C4_BackoffLadder ==
  (/\ TransientClose
   /\ NeverOpened(last.p, last.id)
   /\ proc[last.p].streak[last.id] < MaxStreak) =>
     /\ Cardinality(TimersOf(last.p, last.id)) = 1
     /\ \A k \in TimersOf(last.p, last.id) :
          proc[last.p].timers[k].delay = BackoffOf(proc[last.p].streak[last.id])

\* The createSession(id, true) calls in flight in p.
ForceCreates(L, id) ==
  {t \in BagToSet(L.tasks) : t.id = id /\ t.origin = "timer"}

\* The logoutSession(id) calls a close handler started that are in flight.
CloseLogouts(L, id) ==
  {t \in BagToSet(L.tasks) : t.id = id /\ t.origin = "close"}

\* A listener of p has just handled a close whose cause is logged-out or
\* connection-replaced.
TerminalClose == last.op = "closeTerminal" /\ last.b

\* The reconnect timer of the record of id, when it is armed.
RecordTimer(L, id) ==
  LET s == L.sessions[id] IN
  IF s = 0 \/ L.heap[s].backoffTimer = 0 THEN {}
  ELSE {k \in {L.heap[s].backoffTimer} : L.timers[k].armed}

\* C5: a terminal close goes straight to logoutSession: the step arms no
\* reconnect timer, leaves the record's timer disarmed, starts no
\* createSession(id, true), and logoutSession(id) is under way.
C5_TerminalNoReconnect ==
  [][TerminalClose' =>
       LET p == last'.p  id == last'.id IN
       /\ Cardinality(TimersIn(proc'[p], id)) <= Cardinality(TimersIn(proc[p], id))
       /\ RecordTimer(proc'[p], id) = {}
       /\ Cardinality(ForceCreates(proc'[p], id))
            <= Cardinality(ForceCreates(proc[p], id))
       /\ CloseLogouts(proc'[p], id) # {}]_vars

\* C5 witness: a terminal close was handled while the session had a record
\* whose backoff was in use, and logoutSession is now in flight.
C5_Witness ==
  /\ TerminalClose
  /\ CloseLogouts(proc[last.p], last.id) # {}
  /\ TimersOf(last.p, last.id) = {}
  /\ proc[last.p].streak[last.id] > 0

\* C6: at most one reconnect timer is armed per session at any time.
C6_OneTimer ==
  \A p \in Procs, i \in Ids : Cardinality(TimersOf(p, i)) <= 1

\* The store holds nothing of id: no credential blob, no keyed entry, no
\* token record.
Wiped(id) ==
  /\ credsKey[id] = 0
  /\ keyedKeys[id] = {}
  /\ sessSet[id] = {}
  /\ \A t \in Tokens : tokenKey[t] # id

\* C7: when logoutSession(id) completes in the process that had the record,
\* the process has no record and no armed reconnect timer for id, the lock
\* key does not hold a token of that process, and the store holds nothing
\* of id.
C7_LogoutLeavesNothing ==
  (last.op = "logoutDone" /\ last.a) =>
     /\ proc[last.p].sessions[last.id] = 0
     /\ TimersOf(last.p, last.id) = {}
     /\ \A x \in Holders(last.id) : x[1] # last.p
     /\ Wiped(last.id)

\* C8: once logoutSession(id) has run its deletion (the token set of id is
\* empty) and no logoutSession(id) is running, a createSession that resumes
\* from its store read builds a connector only for a record it still finds
\* in the table, and the record it leaves has a lease.
C8_AbandonsAfterLogout ==
  (/\ last.op = "construct"
   /\ sessSet[last.id] = {}
   /\ ~Terminating(last.p, last.id)) =>
     /\ last.b
     /\ proc[last.p].heap[proc[last.p].sessions[last.id]].lock # 0

\* The logoutSession(id) calls in flight in p, by where they stand.
LogoutAt(p, id, pcs) ==
  {t \in BagToSet(proc[p].tasks) :
     t.id = id /\ t.origin \in {"logout", "close"} /\ t.pc \in pcs}

\* C9: teardown is best-effort.  A logoutSession call that met a failing
\* sub-step (listener removal, sock.logout(), lease release) is still running
\* its teardown; after a rejected sock.logout() it goes on to the lease
\* release, or without a lease to the deletion with the record removed; after
\* a failed release the record is removed and the deletion starts; the call
\* rejects only when a command of deleteRedisAuth itself failed; and when it
\* completes after a sub-step failure the deletion pipeline has run.
C9_BestEffort ==
  /\ \A p \in Procs : \A t \in BagToSet(proc[p].tasks) :
       t.errs # {} =>
         /\ t.origin \in {"logout", "close"}
         /\ t.pc \in {"sockLogout", "release", "smembers", "scan", "exec"}
  /\ (last.op = "sockLogout" /\ ~last.a) =>
       \/ \E t \in LogoutAt(last.p, last.id, {"release"}) :
            "sockLogout" \in t.errs /\ t.lk # 0
       \/ /\ proc[last.p].sessions[last.id] = 0
          /\ \E t \in LogoutAt(last.p, last.id, {"smembers"}) : "sockLogout" \in t.errs
  /\ (last.op = "release" /\ ~last.a) =>
       /\ proc[last.p].sessions[last.id] = 0
       /\ \E t \in LogoutAt(last.p, last.id, {"smembers"}) : "release" \in t.errs
  /\ last.op = "logoutThrow" => last.a \in {"smembers", "scan", "exec"}
  /\ (last.op = "logoutDone" /\ last.b # {}) => sessSet[last.id] = {}

\* C9 witness: logoutSession completed although a teardown sub-step failed.
C9_Witness == last.op = "logoutDone" /\ last.a /\ last.b # {}

\* C10: when logoutSession(id), called in a process that had no record of
\* id, returns ok and that process still has no record of id, the store holds
\* no credential blob, keyed entry or token record of id.
C10_LogoutWithoutRecord ==
  (/\ last.op = "logoutDone" /\ ~last.a
   /\ proc[last.p].sessions[last.id] = 0) => Wiped(last.id)

\* No lease object of p for id has the token the store holds at lock:wa:<id>.
StaleFor(p, id) ==
  \A l \in DOMAIN proc[p].locks :
    proc[p].locks[l].id = id =>
      (lockKey[id] = NoKey \/ proc[p].locks[l].token # lockKey[id].token)

\* C11: a renew or a release that the store executes for a process none of
\* whose tokens is the value of the lock key leaves the key as it was: same
\* value, same time to live.
C11_StaleTokenNoOp ==
  [][(/\ last'.op \in {"renew", "release"}
      /\ last'.a
      /\ StaleFor(last'.p, last'.id)) =>
        lockKey'[last'.id] = lockKey[last'.id]]_vars

\* C11 witness: a release was executed by a process while the key holds the
\* token of another process, which took the lease over.
C11_Witness ==
  /\ last.op = "release" /\ last.a
  /\ lockKey[last.id] # NoKey
  /\ lockKey[last.id].token[1] # last.p

\* The lease objects of the fleet for id whose renew interval is running.
Renewing(id) ==
  {x \in Procs \X (1..MaxLock) :
     /\ proc[x[1]].locks[x[2]].id = id
     /\ proc[x[1]].locks[x[2]].renewing}

\* C12: as long as no store command has failed, a lease object whose renew
\* interval is running holds the lock key (the key exists with its token),
\* and it is the only one renewing for that id: the key has not expired and
\* no other process has acquired it, however many ticks have passed.
C12_RenewKeepsLease ==
  faults = 0 =>
    \A i \in Ids :
      /\ Cardinality(Renewing(i)) <= 1
      /\ \A x \in Renewing(i) :
           /\ lockKey[i] # NoKey
           /\ lockKey[i].token = proc[x[1]].locks[x[2]].token

\* C12 witness: after two TTL periods of renewing, the owner still holds the
\* key and another process's acquireSessionLock has just been refused.
C12_Witness ==
  /\ faults = 0
  /\ last.op = "acquire" /\ ~last.a
  /\ \E x \in Renewing(last.id) :
       /\ x[1] # last.p
       /\ proc[x[1]].locks[x[2]].held = HeldCap
       /\ lockKey[last.id].token = proc[x[1]].locks[x[2]].token

\* The lock key of id exists and no lease object of the fleet is renewing it:
\* the holder's renew loop stopped and the key was not released.
Orphan(id) ==
  /\ lockKey[id] # NoKey
  /\ \A x \in Renewing(id) : proc[x[1]].locks[x[2]].token # lockKey[id].token

\* C13: a lock key always has between 1 and LOCK_TTL ticks to live; a key
\* nobody renews never gains time and loses one tick per tick of the clock,
\* so it is gone within LOCK_TTL ticks of the last acquire or renew; and an
\* acquireSessionLock that finds the key absent gets the lease.
C13_ExpiresThenAcquirable ==
  [][\A i \in Ids :
       /\ lockKey'[i] # NoKey => lockKey'[i].ttl \in 1..LOCK_TTL
       /\ Orphan(i) =>
            \/ lockKey'[i] = NoKey
            \/ /\ lockKey'[i].token = lockKey[i].token
               /\ lockKey'[i].ttl <= lockKey[i].ttl
               /\ last'.op = "tick" => lockKey'[i].ttl = lockKey[i].ttl - 1
       /\ (last'.op = "acquire" /\ last'.id = i /\ lockKey[i] = NoKey) =>
            /\ last'.a
            /\ lockKey'[i] # NoKey
            /\ lockKey'[i].token[1] = last'.p]_vars

\* C13 witness: the process that created the session was shut down without
\* a logout, no store command failed, and a lazy restore in the other
\* process has just been given the lease.
C13_Witness ==
  /\ last.op = "acquire" /\ last.a
  /\ faults = 0 /\ reqs = 2 /\ issued # {}
  /\ ~proc[last.p].exited
  /\ \E q \in Procs \ {last.p} : proc[q].exited

\* The tokens of the lease objects of id whose release() is in flight in L.
ReleaseTokens(L, id) ==
  {L.locks[t.lk].token :
     t \in {u \in BagToSet(L.tasks) : u.pc = "release" /\ u.id = id}}

\* The tokens of the lease objects of id whose renew interval runs in L.
RenewTokens(L, id) ==
  {L.locks[l].token :
     l \in {k \in DOMAIN L.locks : L.locks[k].id = id /\ L.locks[k].renewing}}

\* The tokens of all lease objects of L.
LockTokens(L) == {L.locks[l].token : l \in DOMAIN L.locks} \ {<<>>}

\* C14: release is idempotent.  A release that finds the key absent, or
\* holding a token of no lease being released, changes nothing in the store;
\* a lease being released has its renew interval stopped and no interval is
\* ever started again on an existing lease object; and a renew never creates
\* the key and changes it only for a lease whose interval is running.
C14_ReleaseIdempotent ==
  [][\A i \in Ids :
       /\ (/\ last'.op = "release" /\ last'.id = i
           /\ \/ lockKey[i] = NoKey
              \/ lockKey[i].token \notin ReleaseTokens(proc[last'.p], i)) =>
             lockKey'[i] = lockKey[i]
       /\ (last'.op = "renew" /\ last'.id = i) =>
             /\ lockKey[i] = NoKey => lockKey'[i] = NoKey
             /\ lockKey'[i] # lockKey[i] =>
                  lockKey[i].token \in RenewTokens(proc[last'.p], i)
       /\ \A p \in Procs :
             /\ ReleaseTokens(proc'[p], i) \cap RenewTokens(proc'[p], i) = {}
             /\ RenewTokens(proc'[p], i) \cap LockTokens(proc[p])
                  \subseteq RenewTokens(proc[p], i)]_vars

\* C14 witness: no store command failed and a release has just found
\* nothing to delete: the lease had been released or had run out before.
C14_Witness ==
  /\ last.op = "release" /\ last.a /\ last.b = 0
  /\ faults = 0
  /\ lockKey[last.id] = NoKey

\* C15: release never fails towards its caller.  No logoutSession call is
\* rejected at its release; the renew interval of a lease object is stopped
\* before its release reaches the store, and right after a release the store
\* could not execute the caller has gone on to deleteRedisAuth.
C15_ReleaseNeverThrows ==
  /\ last.op = "logoutThrow" => last.a # "release"
  /\ \A p \in Procs : \A t \in BagToSet(proc[p].tasks) :
       t.pc = "release" => ~proc[p].locks[t.lk].renewing
  /\ (last.op = "release" /\ ~last.a) =>
       /\ \E t \in BagToSet(proc[last.p].tasks) :
            t.id = last.id /\ t.pc = "smembers" /\ "release" \in t.errs

\* C15 witness: the store failed during release, the lock key is still
\* there, and the caller's logoutSession has completed.
C15_Witness ==
  /\ last.op = "logoutDone" /\ "release" \in last.b
  /\ lockKey[last.id] # NoKey

\* The ids of a sequence.
Range(q) == {q[j] : j \in DOMAIN q}

\* The candidates of the store and those whose lock key another instance holds.
Candidates == SessIds \cup CredsIds
HeldElsewhere == {i \in Ids : lockKey[i] # NoKey /\ lockKey[i].token = Elsewhere}

\* The ids createSession was called for by p's restore, and those p holds a
\* record with a connector for.
Attempted(p) == {i \in Ids : proc[p].restore.calls[i] >= 1}
Connected(p) ==
  {i \in Ids : proc[p].sessions[i] # 0 /\ proc[p].heap[proc[p].sessions[i]].sock # 0}

C17_NeverRaises == \A p \in Procs : proc[p].restore.pc # "rejected"

\* What C18 asks of a step, for the restore of p.
RetryDiscipline(p) ==
  LET r  == proc[p].restore
      r2 == proc'[p].restore
  IN  /\ \A id \in Ids :
           (r2.calls[id] > r.calls[id] /\ r.calls[id] >= 1) =>
             /\ r.pc = "wait" /\ r.code = "423" /\ r.delay = RETRY_DELAY_MS
             /\ r.ids[r.i] = id /\ r2.attempt = r.attempt + 1
      /\ (r.pc = "settled" /\ r.code = "error") =>
           /\ r2.pc # "wait"
           /\ r2.calls[r.ids[r.i]] = r.calls[r.ids[r.i]]
      /\ (r.pc = "settled" /\ r.code = "423" /\ r.attempt >= RETRIES) =>
           /\ r2.pc # "wait"
           /\ r2.calls[r.ids[r.i]] = r.calls[r.ids[r.i]]

\* The restores of the fleet are over.
RestoresOver == \A p \in Procs : proc[p].restore.pc \in {"done", "rejected"}

\* The awaits a restore can still pass through: those left in the attempt
\* it is at (acquire, load, settle, wait), in the attempts left for its
\* candidate, for the candidates after it, and the scans before the loop.
RestoreRank(L) ==
  LET r    == L.restore
      atAcquire == \E t \in BagToSet(L.tasks) : t.origin = "restore" /\ t.pc = "acquire"
      inLoop == (Len(r.ids) - r.i) * 4 * (RETRIES + 1) + (RETRIES - r.attempt) * 4
      before == Cardinality(Ids) * 4 * (RETRIES + 1)
  IN  CASE r.pc = "idle"      -> before + 4
        [] r.pc = "scanSess"  -> before + 3
        [] r.pc = "scanCreds" -> before + 2
        [] r.pc = "scanLocks" -> before + 1
        [] r.pc = "create"    -> inLoop + (IF atAcquire THEN 3 ELSE 2)
        [] r.pc = "settled"   -> inLoop + 1
        [] r.pc = "wait"      -> inLoop
        [] OTHER              -> 0

FleetRank == LET q == CHOOSE x \in Procs : TRUE
             IN  RestoreRank(proc[q]) + RestoreRank(proc[CHOOSE x \in Procs : x # q])

\* C18: createSession is called again for a candidate only after a 423 and
\* the wait of RETRY_DELAY_MS, at most RETRIES times after the first call;
\* after any other failure, and after the last 423, the candidate is left at
\* once; and the scan terminates: every step brings the restores closer to
\* their end by a rank that cannot go below zero, and a restore that is not
\* over stands at a scan, at its catch block, at its delay, or at a
\* createSession that is in flight.
C18_BoundedRetries ==
  /\ [][/\ \A p \in Procs : RetryDiscipline(p)
        /\ FleetRank' < FleetRank]_proc
  /\ [](\A p \in Procs : \A id \in Ids :
          /\ proc[p].restore.calls[id] <= RETRIES + 1
          /\ proc[p].restore.attempt <= RETRIES)
  /\ [](/\ FleetRank >= 0
        /\ RestoresOver <=> FleetRank = 0
        /\ \A p \in Procs : proc[p].restore.pc = "create" <=>
             \E t \in BagToSet(proc[p].tasks) : t.origin = "restore")

\* C18 witness: a restore is over and has left a candidate after RETRIES + 1
\* calls that all found the lease taken.
C18_Witness ==
  \E p \in Procs : \E id \in Ids :
    /\ proc[p].restore.pc = "done"
    /\ proc[p].restore.calls[id] = RETRIES + 1
    /\ id \notin Range(proc[p].restore.restored)
    /\ lockKey[id] # NoKey

\* createSession(id, false) is called by p's restore in this step while p
\* holds a record for id that is not closed.
CallsOnRecord(p, id) ==
  /\ proc'[p].restore.calls[id] > proc[p].restore.calls[id]
  /\ proc[p].sessions[id] # 0
  /\ proc[p].heap[proc[p].sessions[id]].status # "close"

\* C19: createSession(id, false), called while a record for id exists that
\* is not closed, resolves with that record and changes nothing: no
\* acquire, no load, no new connector, also while an earlier call is still
\* creating the record.
C19_GetOrCreate ==
  [][\A p \in Procs : \A id \in Ids :
       CallsOnRecord(p, id) =>
         /\ proc'[p].restore.pc = "settled" /\ proc'[p].restore.code = "ok"
         /\ proc'[p].tasks = proc[p].tasks
         /\ proc'[p].sessions = proc[p].sessions
         /\ proc'[p].heap = proc[p].heap
         /\ proc'[p].socks = proc[p].socks
         /\ proc'[p].locks = proc[p].locks]_proc

\* The session table of a process as a caller can read it: per id the
\* record's status, the phase of its connector and the token of its lease.
TableView(L) ==
  [i \in Ids |->
     IF L.sessions[i] = 0 THEN <<>>
     ELSE LET e == L.heap[L.sessions[i]]
          IN  <<e.status,
                IF e.sock = 0 THEN "" ELSE L.socks[e.sock].phase,
                IF e.lock = 0 THEN <<>> ELSE L.locks[e.lock].token>>]

\* The connectors a process has constructed and not seen closed, per id.
Connectors(L) ==
  [i \in Ids |-> Cardinality({k \in DOMAIN L.socks :
       L.socks[k].id = i /\ L.socks[k].phase \in {"connecting", "open"}})]

\* The createSession calls of a process that await the lease or the
\* credentials of id.
Creating(L, id) ==
  BagCardinality([t \in {x \in BagToSet(L.tasks) :
                           x.id = id /\ x.pc \in {"acquire", "load"}} |-> L.tasks[t]])

\* C20: when acquireSessionLock answers that the lease is taken, the
\* createSession that asked rejects at once and is over (it does not ask
\* again), its caller sees code 423, which a failed store command does not
\* give, and the session table, the lock key, the credentials and the
\* connectors of the process are what they were.
C20_LockedRejects ==
  [][\A p \in Procs :
       /\ (last'.op = "acquire" /\ last'.p = p /\ ~last'.a) =>
            /\ last'.b
            /\ proc'[p].restore.pc = "settled" /\ proc'[p].restore.code = "423"
            /\ Creating(proc'[p], last'.id) = Creating(proc[p], last'.id) - 1
            /\ TableView(proc'[p]) = TableView(proc[p])
            /\ Connectors(proc'[p]) = Connectors(proc[p])
            /\ lockKey' = lockKey /\ credsKey' = credsKey /\ keyedKeys' = keyedKeys
       /\ (last'.op = "acquireError" /\ last'.p = p) =>
            proc'[p].restore.code # "423"]_<<proc, last.op, last.p, last.id>>

\* C20 witness: a createSession was rejected with 423 because another
\* process of the fleet holds the lease.
C20_Witness ==
  /\ last.op = "acquire" /\ ~last.a
  /\ proc[last.p].restore.pc = "settled" /\ proc[last.p].restore.code = "423"
  /\ proc[last.p].sessions[last.id] = 0
  /\ \E x \in Holders(last.id) : x[1] # last.p

\* The connectors of p for id that have not closed.
SocksOf(p, id) ==
  {k \in DOMAIN proc[p].socks :
     proc[p].socks[k].id = id /\ proc[p].socks[k].phase \in {"connecting", "open"}}

C22_CorruptFallsBack ==
  (last.op = "construct" /\ credsKey[last.id] \in {0, Corrupt}) =>
    LET L == proc[last.p]
        e == L.sessions[last.id]
    IN  /\ e # 0 /\ L.heap[e].sock # 0
        /\ L.socks[L.heap[e].sock].phase = "connecting"
        /\ L.socks[L.heap[e].sock].creds = 0

\* C22 witness: a connector was constructed over a corrupt blob.
C22_Witness ==
  /\ last.op = "construct" /\ credsKey[last.id] = Corrupt
  /\ \E k \in SocksOf(last.p, last.id) : proc[last.p].socks[k].creds = 0

\* No writer came between the SCAN of a deleteRedisAuth(id) of p and its
\* EXEC: what every such call scanned is what the store holds under
\* baileys:<id>: now.
Unwritten(p, id) ==
  \A t \in BagToSet(proc[p].tasks) :
    (t.id = id /\ t.pc = "exec") =>
      /\ t.creds = (credsKey[id] # 0)
      /\ t.kids = keyedKeys[id]

\* C23: when a deleteRedisAuth(id) that no writer interfered with
\* completes, the store holds no credential blob and no keyed entry of id, a
\* load for id gives fresh credentials, and the blobs and keyed entries of
\* every other id are what they were.
C23_FullWipe ==
  [][\A p \in Procs : \A id \in Ids :
       (last'.op = "logoutDone" /\ last'.p = p /\ last'.id = id /\ Unwritten(p, id)) =>
         /\ credsKey'[id] = 0 /\ keyedKeys'[id] = {}
         /\ useRedisAuth(credsKey'[id]) = 0
         /\ \A j \in Ids \ {id} :
              credsKey'[j] = credsKey[j] /\ keyedKeys'[j] = keyedKeys[j]]_proc

\* C23 witness: a logoutSession completed, nothing of its session is left in
\* the store and the other sessions still have their credentials and keys.
C23_Witness ==
  /\ last.op = "logoutDone"
  /\ credsKey[last.id] = 0 /\ keyedKeys[last.id] = {} /\ sessSet[last.id] = {}
  /\ \A j \in Ids \ {last.id} : credsKey[j] = saveCreds(0) /\ keyedKeys[j] = KeyIds

\* C24: a shutdown or crash leaves every credential blob, keyed entry and
\* token record in the store as it was, and a connector constructed after a
\* process went down carries the credentials the store holds, which a load
\* gives back as they were saved.
C24_SurvivesShutdown ==
  /\ [][last'.op = "shutdown" =>
         /\ credsKey' = credsKey /\ keyedKeys' = keyedKeys
         /\ sessSet' = sessSet /\ tokenKey' = tokenKey]_<<proc, last.op, last.p, last.id>>
  /\ []((last.op = "construct" /\ \E q \in Procs : proc[q].exited) =>
          /\ last.a
          /\ \E k \in SocksOf(last.p, last.id) :
               saveCreds(proc[last.p].socks[k].creds) = credsKey[last.id]
                 \/ (credsKey[last.id] = 0 /\ proc[last.p].socks[k].creds = 0))

\* C24 witness: after a process went down, a process that acquired the lease
\* constructed a connector with credentials saved before.
C24_Witness ==
  /\ last.op = "construct" /\ last.a
  /\ \E q \in Procs : proc[q].exited /\ proc[q].sessions[last.id] = 0 /\ q # last.p
  /\ credsKey[last.id] # 0
  /\ \E k \in SocksOf(last.p, last.id) :
       /\ proc[last.p].socks[k].creds >= 1
       /\ saveCreds(proc[last.p].socks[k].creds) = credsKey[last.id]

\* No token resolves to id and its token-index set is gone.
Revoked(id) == sessSet[id] = {} /\ \A t \in Tokens : tokenKey[t] # id

\* C25: when logoutSession(id) completes, the token-index set of id is gone
\* and no token resolves to id, while every token of another session resolves
\* as it did and the other token-index sets are as they were; and from then
\* on no token resolves to id: a token comes to resolve to a session only
\* when createSessionTokenPair registers it for a new session.
C25_TokensRevoked ==
  /\ [](last.op = "logoutDone" => Revoked(last.id))
  /\ [][last'.op = "logoutDone" =>
         /\ \A t \in Tokens : tokenKey[t] # last'.id => tokenKey'[t] = tokenKey[t]
         /\ \A j \in Ids \ {last'.id} : sessSet'[j] = sessSet[j]]_<<proc, last.op, last.p, last.id>>
  /\ [][\A id \in Ids :
         (Revoked(id) /\ last'.op # "postSession") =>
           \A t \in Tokens : tokenKey'[t] # id]_<<proc, last.op, last.p, last.id>>

\* C25 witness: a logoutSession completed; the token issued for its session
\* resolves to nothing and the token of another session resolves to it.
C25_Witness ==
  /\ last.op = "logoutDone"
  /\ \E t \in issued : tokenKey[t] = ""
  /\ \E u \in issued : tokenKey[u] \notin {"", last.id} /\ u \in sessSet[tokenKey[u]]
\* The reconnect timers of p that are armed for id.
Armed(p, id) ==
  {k \in DOMAIN proc[p].timers : proc[p].timers[k].armed /\ proc[p].timers[k].id = id}

\* C26: when a connector's open event has been handled, the record of its
\* session in the table has status open, no cached pairing artifact, no
\* reconnect timer, the reconnecting flag off and the backoff delay at
\* RECONNECT_MIN, and no reconnect timer of the process is armed for it.
C26_OpenResets ==
  (last.op = "open" /\ last.b) =>
    LET L == proc[last.p]
        s == L.sessions[last.id]
    IN  /\ s # 0
        /\ L.heap[s].status = "open"
        /\ L.heap[s].lastQr = 0
        /\ L.heap[s].backoffTimer = 0
        /\ ~L.heap[s].reconnecting
        /\ L.heap[s].backoffMs = RECONNECT_MIN
        /\ Armed(last.p, last.id) = {}
\* The connectors of id in p whose connection.update listener is attached and
\* that can still report a close.
Listening(p, id) ==
  {k \in DOMAIN proc[p].socks :
     /\ proc[p].socks[k].id = id /\ proc[p].socks[k].on
     /\ proc[p].socks[k].phase \in {"connecting", "open"}}

\* C27: when a connector that had reported open closes with a transient
\* cause, the reconnect it schedules has the delay RECONNECT_MIN, the delay of
\* the first failure of a freshly created session.
C27_RestartsAtMin ==
  [][\A p \in Procs, id \in Ids :
       ( /\ last'.op = "closeTransient" /\ last'.p = p /\ last'.id = id /\ last'.b
         /\ Listening(p, id) # {}
         /\ \A k \in Listening(p, id) : proc[p].socks[k].phase = "open"
         /\ Armed(p, id) = {} ) =>
       \A k \in Armed(p, id)' : proc'[p].timers[k].delay = RECONNECT_MIN
    ]_<<proc, last.op, last.p, last.id>>
\* C28: a record whose status is open caches no pairing artifact; when a
\* close event has been handled, getLastQR of its session returns nothing; and
\* getLastQR never returns an artifact that was cached before the last open
\* or close handled for the session.
C28_NoStaleArtifact ==
  /\ \A p \in Procs : \A e \in DOMAIN proc[p].heap :
       proc[p].heap[e].status = "open" => proc[p].heap[e].lastQr = 0
  /\ (last.op \in {"closeTransient", "closeTerminal"} /\ last.b) =>
       getLastQR(proc[last.p], last.id) = 0
  /\ \A p \in Procs, id \in Ids :
       getLastQR(proc[p], id) # 0 => getLastQR(proc[p], id) > proc[p].settled[id]
\* The connectors of id that run in p.
Running(p, id) ==
  {k \in DOMAIN proc[p].socks :
     proc[p].socks[k].id = id /\ proc[p].socks[k].phase \in {"connecting", "open"}}

\* The record of id in the table of p carries a lease object taken for id.
Leased(p, id) ==
  LET s == proc[p].sessions[id] IN
  /\ s # 0
  /\ proc[p].heap[s].lock # 0
  /\ proc[p].locks[proc[p].heap[s].lock].id = id

\* C29: in every process every record of the session table carries a lease
\* the process acquired for its id, and a connector runs for an id only while
\* the table holds such a record (the table is keyed by id, so it holds at
\* most one record per id).
C29_RecordHasLease ==
  \A p \in Procs, id \in Ids :
    /\ proc[p].sessions[id] # 0 => Leased(p, id)
    /\ Running(p, id) # {} => Leased(p, id)
\* The running connectors of id in p that have a connection.update or a
\* creds.update listener attached.
Subscribed(p, id) ==
  {k \in Running(p, id) : proc[p].socks[k].on \/ proc[p].socks[k].onCreds}

\* C30: in every process and for every session id, at most one running
\* connector has its listeners attached, and it is the connector of the
\* record in the table.
C30_OneSubscribed ==
  \A p \in Procs, id \in Ids :
    /\ Cardinality(Subscribed(p, id)) <= 1
    /\ \A k \in Subscribed(p, id) :
         /\ proc[p].sessions[id] # 0
         /\ proc[p].heap[proc[p].sessions[id]].sock = k
Handles(L) == [k \in DOMAIN L.socks |-> [L.socks[k] EXCEPT !.creds = 0]]

C33_DeleteAtomic ==
  last.op = "logoutDone" =>
    /\ useRedisAuth(credsKey[last.id]) = 0
    /\ keyedKeys[last.id] = {}
\* The auto-restore of p has returned and no createSession of p is in flight:
\* without a client request p starts nothing more.
Settled(p) ==
  /\ proc[p].restore.pc = "done"
  /\ BagToSet(proc[p].tasks) = {}

\* C34: once the auto-restore of the starting process has returned and the
\* lease of the dead owner has run out, every persisted session has a record
\* and a connector in that process (nothing but a client request would start
\* one afterwards).
C34_RestoresOrphans ==
  \A p \in Solo, id \in Ids :
    (Settled(p) /\ id \in SessIds \cup CredsIds /\ lockKey[id] = NoKey) =>
      (proc[p].sessions[id] # 0 /\ Running(p, id) # {})

\* C35: when the logoutSession that a terminal close of a connector started
\* reaches the pipeline of its deleteRedisAuth in a process whose lease had
\* been superseded at the close (the lock key held another token), while
\* another process holds the lease and drives the session, the credential
\* blob, the keyed entries and the token records of the id are left as they
\* are.
C35_StaleCloseKeepsData ==
  [][\A p \in Procs, id \in Ids :
       LET Wiping == {t \in BagToSet(proc[p].tasks) : t.id = id /\ t.pc = "exec"}
           Owns(q) ==
             /\ lockKey[id] # NoKey /\ lockKey[id].token[1] = q
             /\ Leased(q, id)
             /\ proc[q].locks[proc[q].heap[proc[q].sessions[id]].lock].token
                  = lockKey[id].token
             /\ Running(q, id) # {}
       IN
       ( /\ last'.op = "logoutDone" /\ last'.p = p /\ last'.id = id
         /\ Wiping # {}
         /\ \A t \in Wiping : t.origin = "close" /\ t.lost
         /\ \E q \in Procs \ {p} : Owns(q) ) =>
       /\ credsKey'[id] = credsKey[id]
       /\ keyedKeys'[id] = keyedKeys[id]
       /\ sessSet'[id] = sessSet[id]
       /\ \A t \in Tokens : tokenKey[t] = id => tokenKey'[t] = id
    ]_<<proc, last.op, last.p, last.id>>


\* C36: a logoutSession that found no record of its id in the table of its
\* process is never past the acquisition of the lease: it holds no lease
\* object, is not loading credentials for a connector and has no record or
\* connector to tear down; it only runs the deletion of the store data.
C36_LogoutOnlyDeletes ==
  \A p \in Procs : \A t \in TaskSet(proc[p]) :
    (t.origin \in {"logout", "close"} /\ ~t.had) =>
      /\ t.pc \notin {"load", "sockLogout", "release"}
      /\ t.lk = 0 /\ t.sk = 0 /\ t.s = 0

\* C37: every hand-over of a payload of POST /send to a connector finds the
\* record of the session with status open and the connector handle open.
C37_SendOnlyToOpen ==
  last.op = "send" => (last.a = "open" /\ last.b = "open")
====
